---- MODULE Spec2Model ----
(***************************************************************************)
(* Project backup and restore engine of infrantery-backend-go.             *)
(*                                                                         *)
(* Byte blocks are sequences over 0..255.  Strings are sequences of        *)
(* character codes (the text that the JSON request decoder lets in is     *)
(* valid UTF-8).  An ObjectID is a natural number (0 is NilObjectID) and   *)
(* its Hex() form is a string of two hexadecimal digits.  The library      *)
(* primitives the service calls (encoding/json, zstd, HMAC, Argon2id,      *)
(* AES-GCM) are small executable codecs with the same interface and the    *)
(* same failure modes, so that framing, offsets, error mapping and the     *)
(* order of the steps are the service's own.                               *)
(***************************************************************************)
EXTENDS Integers, Sequences, FiniteSets, TLC

----------------------------------------------------------------------------
(* Byte and string helpers *)

Byte == 0..255

RECURSIVE SumRange(_, _, _)
SumRange(s, lo, hi) ==
    IF lo > hi THEN 0
    ELSE IF lo = hi THEN s[lo]
    ELSE LET mid == (lo + hi) \div 2
         IN  SumRange(s, lo, mid) + SumRange(s, mid + 1, hi)

SumSeq(s) == SumRange(s, 1, Len(s))

RECURSIVE Flatten(_)
Flatten(ss) == IF ss = <<>> THEN <<>> ELSE Head(ss) \o Flatten(Tail(ss))

Range(s) == {s[i] : i \in DOMAIN s}

\* optional values (Go pointers): nil or a pointer to one value
Nil == <<>>
Ptr(x) == <<x>>

\* the set of sequences over S of length at most n
SeqUpTo(S, n) == UNION {[1..k -> S] : k \in 0..n}

----------------------------------------------------------------------------
(* primitive.ObjectID and its Hex() string *)

NilObjectID == 0

HexDigit(d) == IF d < 10 THEN 48 + d ELSE 87 + d

Hex(oid) == <<HexDigit((oid \div 16) % 16), HexDigit(oid % 16)>>

----------------------------------------------------------------------------
(* pkg/crypto: key derivation and authenticated encryption *)

NonceSize == 12

SaltSize == 32

KeyLength == 32

gcmTagSize == 16

\* domain.BackupPepper, the bytes of the hardcoded application secret
BackupPepper == <<
    105, 110, 102, 114, 97, 110, 116, 101, 114, 121, 58, 98, 97, 99,
    107, 117, 112, 58, 118, 49, 58, 97, 57, 102, 50, 99, 56, 101, 49,
    45, 52, 100, 55, 98, 45, 52, 102, 51, 97, 45, 98, 53, 101, 54, 45,
    56, 99, 49, 100, 57, 101, 48, 102, 55, 97, 50, 98 >>

\* s.argon2Params as configured, with KeyLength forced to 32 by toCryptoParams
toCryptoParams == [Memory |-> 64, Iterations |-> 3, Parallelism |-> 2,
                   KeyLength |-> KeyLength]

\* a message padded to one digest block: the bytes, a 128 marker, then zeros
PadBlock(msg, n) ==
    [j \in 1..n |-> IF j <= Len(msg) THEN msg[j]
                    ELSE IF j = Len(msg) + 1 THEN 128 ELSE 0]

\* hmac.New(sha256.New, key); mac.Write(msg); mac.Sum(nil): a 32-byte digest
HmacSha256(key, msg) ==
    LET block == PadBlock(msg, 32)
    IN  [j \in 1..32 |-> (block[j] + key[((j - 1) % Len(key)) + 1]) % 256]

\* argon2.IDKey(password, salt, time, memory, threads, keyLen)
Argon2IDKey(pw, salt, params) ==
    [j \in 1..params.KeyLength |->
        (pw[((j - 1) % Len(pw)) + 1] + salt[((j - 1) % Len(salt)) + 1]
         + params.Iterations + params.Memory + params.Parallelism) % 256]

\* a derivation that leaves the password out of the key
DeriveKeyFromPepper(password, pepper, salt, params) ==
    Argon2IDKey(HmacSha256(pepper, <<>>), salt, params)

DeriveBackupKey(password, pepper, salt, params) ==
    LET pepperedPassword == HmacSha256(pepper, password)
    IN  Argon2IDKey(pepperedPassword, salt, params)

\* aes.NewCipher accepts keys of 16, 24 or 32 bytes only
AesKeyOK(key) == Len(key) \in {16, 24, 32}

GcmBody(pt, key, nonce, sign) ==
    [i \in 1..Len(pt) |->
        (pt[i] + sign * (key[((i - 1) % Len(key)) + 1]
                         + nonce[((i - 1) % Len(nonce)) + 1]) + 512) % 256]

\* a tag that does not cover the nonce
GcmTagWithoutNonce(body, key, nonce) ==
    LET digest == SumSeq(body) + Len(body)
    IN  [j \in 1..gcmTagSize |-> (key[j] + key[j + gcmTagSize] + digest) % 256]

GcmTag(body, key, nonce) ==
    LET digest == SumSeq(body) + Len(body)
    IN  [j \in 1..gcmTagSize |->
            (key[j] + key[j + gcmTagSize] + nonce[((j - 1) % Len(nonce)) + 1]
             + digest) % 256]

\* gcm.Seal(nil, nonce, plaintext, nil): the encrypted bytes followed by the tag
GcmSeal(key, nonce, plaintext) ==
    LET body == GcmBody(plaintext, key, nonce, 1)
    IN  body \o GcmTag(body, key, nonce)

\* gcm.Open(nil, nonce, ciphertext, nil): [ok, plaintext]
GcmOpen(key, nonce, ciphertext) ==
    IF Len(ciphertext) < gcmTagSize
    THEN [ok |-> FALSE, plaintext |-> <<>>]
    ELSE LET n    == Len(ciphertext) - gcmTagSize
             body == SubSeq(ciphertext, 1, n)
             tag  == SubSeq(ciphertext, n + 1, Len(ciphertext))
         IN  IF tag = GcmTag(body, key, nonce)
             THEN [ok |-> TRUE, plaintext |-> GcmBody(body, key, nonce, -1)]
             ELSE [ok |-> FALSE, plaintext |-> <<>>]

\* crypto.Encrypt with the nonce that rand.Read produced: [err, nonce, ciphertext]
Encrypt(plaintext, key, nonce) ==
    IF ~AesKeyOK(key)
    THEN [err |-> "creating cipher", nonce |-> <<>>, ciphertext |-> <<>>]
    ELSE [err |-> "", nonce |-> nonce, ciphertext |-> GcmSeal(key, nonce, plaintext)]

\* a decryption that takes the bytes without verifying the tag
DecryptUnauthenticated(ciphertext, key, nonce) ==
    IF ~AesKeyOK(key) \/ Len(ciphertext) < gcmTagSize
    THEN [err |-> "decrypting", plaintext |-> <<>>]
    ELSE [err |-> "",
          plaintext |-> GcmBody(SubSeq(ciphertext, 1, Len(ciphertext) - gcmTagSize),
                                key, nonce, -1)]

\* crypto.Decrypt: [err, plaintext]
Decrypt(ciphertext, key, nonce) ==
    IF ~AesKeyOK(key)
    THEN [err |-> "creating cipher", plaintext |-> <<>>]
    ELSE LET r == GcmOpen(key, nonce, ciphertext)
         IN  IF r.ok THEN [err |-> "", plaintext |-> r.plaintext]
             ELSE [err |-> "ErrDecryptionFailed", plaintext |-> <<>>]

----------------------------------------------------------------------------
(* pkg/compression: a zstd frame is the frame magic, one block (a Raw     *)
(* block, or an RLE block when all bytes are equal) and a content checksum *)

ZstdMagic == <<40, 181, 47, 253>>

ContentChecksum(data) == SumSeq(data) % 256

\* enc.EncodeAll(data, ...)
EncodeAll(data) ==
    LET lo == Len(data) % 256
        hi == (Len(data) \div 256) % 256
    IN  ZstdMagic
        \o (IF Len(data) > 1 /\ \A i \in DOMAIN data : data[i] = data[1]
            THEN <<1, lo, hi, data[1]>>
            ELSE <<0, lo, hi>> \o data)
        \o <<ContentChecksum(data)>>

\* dec.DecodeAll(data, nil): [ok, out]
DecodeAll(frame) ==
    LET bad  == [ok |-> FALSE, out |-> <<>>]
        m    == Len(ZstdMagic)
        size == frame[m + 2] + 256 * frame[m + 3]
        out  == IF frame[m + 1] = 1 THEN [k \in 1..size |-> frame[m + 4]]
                ELSE SubSeq(frame, m + 4, m + 3 + size)
    IN  IF Len(frame) < m + 4 \/ SubSeq(frame, 1, m) # ZstdMagic THEN bad
        ELSE IF frame[m + 1] \notin {0, 1} THEN bad
        ELSE IF frame[m + 1] = 1 /\ Len(frame) # m + 5 THEN bad
        ELSE IF frame[m + 1] = 0 /\ Len(frame) # m + 4 + size THEN bad
        ELSE IF frame[Len(frame)] # ContentChecksum(out) THEN bad
        ELSE [ok |-> TRUE, out |-> out]

\* compression.Compress: [err, out]; encInit is the outcome of getEncoder
Compress(data, encInitErr) ==
    IF encInitErr THEN [err |-> "initializing zstd encoder", out |-> <<>>]
    ELSE [err |-> "", out |-> EncodeAll(data)]

\* compression.Decompress: [err, out]
Decompress(data, decInitErr) ==
    IF decInitErr THEN [err |-> "initializing zstd decoder", out |-> <<>>]
    ELSE LET r == DecodeAll(data)
         IN  IF r.ok THEN [err |-> "", out |-> r.out]
             ELSE [err |-> "decompressing data", out |-> <<>>]

----------------------------------------------------------------------------
(* encoding/json over the backup types (domain.BackupPayload and its parts) *)
(* A value is a string (34 chars 34, with 92 escaping 34 and 92), a number  *)
(* (35 n), an object (123, then key byte and value per member, 125), an     *)
(* array (91 values 93) or null (110).  A struct field is written under the *)
(* key byte of its json tag; omitempty fields are left out when empty.      *)

\* struct tags: <<Go field, key byte of the json name, kind>>
ProjectBackupTags ==
    << <<"ID", 1, "str">>, <<"Name", 2, "str">>, <<"Description", 3, "str">>,
       <<"KeyEpoch", 4, "str">>, <<"CreatedAt", 5, "str">>, <<"UpdatedAt", 6, "str">> >>

MemberKeyringBackupTags ==
    << <<"Epoch", 1, "str">>, <<"SecretPassphrase", 2, "str">>,
       <<"SecretSigningPrivateKey", 3, "str">>, <<"SigningPublicKey", 4, "str">> >>

DiagramBackupTags ==
    << <<"ID", 1, "str">>, <<"ParentDiagramID", 2, "ptr">>, <<"DiagramName", 3, "str">>,
       <<"Description", 4, "str">>, <<"EncryptedData", 5, "ptr">>,
       <<"EncryptedDataSignature", 6, "str">>, <<"CreatedAt", 7, "str">>,
       <<"UpdatedAt", 8, "str">> >>

NodeBackupTags ==
    << <<"ID", 1, "str">>, <<"DiagramID", 2, "str">>, <<"EncryptedReadme", 3, "str">>,
       <<"EncryptedReadmeSignature", 4, "str">>, <<"EncryptedDict", 5, "str">>,
       <<"EncryptedDictSignature", 6, "str">>, <<"CreatedAt", 7, "str">>,
       <<"UpdatedAt", 8, "str">> >>

VaultBackupTags ==
    << <<"ID", 1, "str">>, <<"NodeID", 2, "str">>, <<"Label", 3, "str">>,
       <<"Type", 4, "str">>, <<"EncryptedValue", 5, "ptr">>,
       <<"EncryptedValueSignature", 6, "ptr">>, <<"CreatedAt", 7, "str">>,
       <<"UpdatedAt", 8, "str">> >>

NoteBackupTags ==
    << <<"ID", 1, "str">>, <<"ParentID", 2, "ptr">>, <<"Type", 3, "str">>,
       <<"FileName", 4, "str">>, <<"Icon", 5, "stromit">>,
       <<"EncryptedContent", 6, "ptr">>, <<"EncryptedContentSignature", 7, "ptr">>,
       <<"CreatedAt", 8, "str">>, <<"UpdatedAt", 9, "str">> >>

\* keys of BackupPayload and MemberBackup
PayloadKey == [version |-> 1, created_at |-> 2, project |-> 3, member |-> 4,
               diagrams |-> 5, nodes |-> 6, vaults |-> 7, notes |-> 8]

MemberKey == [public_key |-> 1, encrypted_private_key |-> 2, keyrings |-> 3]

RECURSIVE JEscape(_)
JEscape(s) ==
    IF s = <<>> THEN <<>>
    ELSE (IF Head(s) \in {34, 92} THEN <<92, Head(s)>> ELSE <<Head(s)>>)
         \o JEscape(Tail(s))

JStr(s) == <<34>> \o JEscape(s) \o <<34>>

JNum(n) == <<35, n % 256>>

JObj(members) == <<123>> \o Flatten(members) \o <<125>>

JArr(elems) == <<91>> \o Flatten(elems) \o <<93>>

\* time.Time marshals its wall clock reading only (RFC 3339), never the
\* monotonic reading
JTime(t) == JStr(<<84, t.wall>>)

\* one struct field as an object member (empty when omitempty drops it)
MarshalField(v, tag) ==
    CASE tag[3] = "str"     -> <<tag[2]>> \o JStr(v)
      [] tag[3] = "stromit" -> IF v = <<>> THEN <<>> ELSE <<tag[2]>> \o JStr(v)
      [] tag[3] = "ptr"     -> IF v = Nil THEN <<>> ELSE <<tag[2]>> \o JStr(v[1])

MarshalStruct(rec, tags) ==
    JObj([i \in 1..Len(tags) |-> MarshalField(rec[tags[i][1]], tags[i])])

MarshalList(list, tags) ==
    JArr([i \in 1..Len(list) |-> MarshalStruct(list[i], tags)])

MarshalMember(m) ==
    JObj(<< <<MemberKey.public_key>> \o JStr(m.PublicKey),
            <<MemberKey.encrypted_private_key>> \o JStr(m.EncryptedPrivateKey),
            <<MemberKey.keyrings>> \o MarshalList(m.Keyrings, MemberKeyringBackupTags) >>)

\* json.Marshal(payload)
Marshal(p) ==
    JObj(<< <<PayloadKey.version>> \o JNum(p.Version),
            <<PayloadKey.created_at>> \o JTime(p.CreatedAt),
            <<PayloadKey.project>> \o MarshalStruct(p.Project, ProjectBackupTags),
            <<PayloadKey.member>> \o MarshalMember(p.Member),
            <<PayloadKey.diagrams>> \o MarshalList(p.Diagrams, DiagramBackupTags),
            <<PayloadKey.nodes>> \o MarshalList(p.Nodes, NodeBackupTags),
            <<PayloadKey.vaults>> \o MarshalList(p.Vaults, VaultBackupTags),
            <<PayloadKey.notes>> \o MarshalList(p.Notes, NoteBackupTags) >>)

\* the decoder: a value tree [t, ...] and the position after it, or a failure
JFail == [ok |-> FALSE, v |-> [t |-> "absent"], next |-> 0]

RECURSIVE JParseValue(_, _), JParseChars(_, _, _), JParseMembers(_, _, _), JParseElems(_, _, _)
JParseValue(b, i) ==
    IF i > Len(b) THEN JFail
    ELSE CASE b[i] = 34  -> JParseChars(b, i + 1, <<>>)
           [] b[i] = 35  -> IF i + 1 <= Len(b)
                            THEN [ok |-> TRUE, v |-> [t |-> "n", n |-> b[i + 1]], next |-> i + 2]
                            ELSE JFail
           [] b[i] = 123 -> JParseMembers(b, i + 1, <<>>)
           [] b[i] = 91  -> JParseElems(b, i + 1, <<>>)
           [] b[i] = 110 -> [ok |-> TRUE, v |-> [t |-> "null"], next |-> i + 1]
           [] OTHER      -> JFail

JParseChars(b, i, acc) ==
    IF i > Len(b) THEN JFail
    ELSE IF b[i] = 34 THEN [ok |-> TRUE, v |-> [t |-> "s", s |-> acc], next |-> i + 1]
    ELSE IF b[i] = 92
         THEN IF i + 1 <= Len(b) /\ b[i + 1] \in {34, 92}
              THEN JParseChars(b, i + 2, Append(acc, b[i + 1]))
              ELSE JFail
    ELSE JParseChars(b, i + 1, Append(acc, b[i]))

JParseMembers(b, i, acc) ==
    IF i > Len(b) THEN JFail
    ELSE IF b[i] = 125 THEN [ok |-> TRUE, v |-> [t |-> "o", m |-> acc], next |-> i + 1]
    ELSE LET r == JParseValue(b, i + 1)
         IN  IF r.ok THEN JParseMembers(b, r.next, Append(acc, <<b[i], r.v>>))
             ELSE JFail

JParseElems(b, i, acc) ==
    IF i > Len(b) THEN JFail
    ELSE IF b[i] = 93 THEN [ok |-> TRUE, v |-> [t |-> "a", a |-> acc], next |-> i + 1]
    ELSE LET r == JParseValue(b, i)
         IN  IF r.ok THEN JParseElems(b, r.next, Append(acc, r.v))
             ELSE JFail

\* the member of object value o under key k (the last one wins), or absent
JGet(o, k) ==
    IF o.t # "o" THEN [t |-> "absent"]
    ELSE LET idx == {i \in DOMAIN o.m : o.m[i][1] = k}
         IN  IF idx = {} THEN [t |-> "absent"]
             ELSE o.m[CHOOSE i \in idx : \A j \in idx : j <= i][2]

\* null and a missing key leave the Go zero value; any other kind of value
\* is an UnmarshalTypeError
Vacant(v) == v.t \in {"null", "absent"}

FieldOK(v, kind) == Vacant(v) \/ v.t = "s"

FieldOf(v, kind) ==
    IF kind = "ptr" THEN (IF v.t = "s" THEN Ptr(v.s) ELSE Nil)
    ELSE (IF v.t = "s" THEN v.s ELSE <<>>)

StructOK(o, tags) ==
    Vacant(o) \/ (o.t = "o" /\ \A i \in DOMAIN tags : FieldOK(JGet(o, tags[i][2]), tags[i][3]))

StructOf(o, tags) ==
    [f \in {tags[i][1] : i \in DOMAIN tags} |->
        LET tag == tags[CHOOSE i \in DOMAIN tags : tags[i][1] = f]
        IN  FieldOf(JGet(o, tag[2]), tag[3])]

ListOK(v, tags) ==
    Vacant(v) \/ (v.t = "a" /\ \A i \in DOMAIN v.a : StructOK(v.a[i], tags))

ListOf(v, tags) ==
    IF v.t = "a" THEN [i \in DOMAIN v.a |-> StructOf(v.a[i], tags)] ELSE <<>>

TimeOK(v) == Vacant(v) \/ (v.t = "s" /\ Len(v.s) = 2 /\ v.s[1] = 84)

\* a parsed time carries no monotonic clock reading
TimeOf(v) == [wall |-> IF v.t = "s" THEN v.s[2] ELSE 0, mono |-> FALSE]

MemberOK(o) ==
    Vacant(o)
    \/ (/\ o.t = "o"
        /\ FieldOK(JGet(o, MemberKey.public_key), "str")
        /\ FieldOK(JGet(o, MemberKey.encrypted_private_key), "str")
        /\ ListOK(JGet(o, MemberKey.keyrings), MemberKeyringBackupTags))

MemberOf(o) ==
    [PublicKey |-> FieldOf(JGet(o, MemberKey.public_key), "str"),
     EncryptedPrivateKey |-> FieldOf(JGet(o, MemberKey.encrypted_private_key), "str"),
     Keyrings |-> ListOf(JGet(o, MemberKey.keyrings), MemberKeyringBackupTags)]

PayloadOK(o) ==
    /\ o.t \in {"o", "null"}
    /\ Vacant(JGet(o, PayloadKey.version)) \/ JGet(o, PayloadKey.version).t = "n"
    /\ TimeOK(JGet(o, PayloadKey.created_at))
    /\ StructOK(JGet(o, PayloadKey.project), ProjectBackupTags)
    /\ MemberOK(JGet(o, PayloadKey.member))
    /\ ListOK(JGet(o, PayloadKey.diagrams), DiagramBackupTags)
    /\ ListOK(JGet(o, PayloadKey.nodes), NodeBackupTags)
    /\ ListOK(JGet(o, PayloadKey.vaults), VaultBackupTags)
    /\ ListOK(JGet(o, PayloadKey.notes), NoteBackupTags)

PayloadOf(o) ==
    [Version   |-> IF JGet(o, PayloadKey.version).t = "n"
                   THEN JGet(o, PayloadKey.version).n ELSE 0,
     CreatedAt |-> TimeOf(JGet(o, PayloadKey.created_at)),
     Project   |-> StructOf(JGet(o, PayloadKey.project), ProjectBackupTags),
     Member    |-> MemberOf(JGet(o, PayloadKey.member)),
     Diagrams  |-> ListOf(JGet(o, PayloadKey.diagrams), DiagramBackupTags),
     Nodes     |-> ListOf(JGet(o, PayloadKey.nodes), NodeBackupTags),
     Vaults    |-> ListOf(JGet(o, PayloadKey.vaults), VaultBackupTags),
     Notes     |-> ListOf(JGet(o, PayloadKey.notes), NoteBackupTags)]

\* the zero BackupPayload (var payload domain.BackupPayload)
ZeroPayload == PayloadOf([t |-> "null"])

\* json.Unmarshal(jsonData, &payload): [ok, payload]
Unmarshal(b) ==
    LET r == JParseValue(b, 1)
    IN  IF r.ok /\ r.next = Len(b) + 1 /\ PayloadOK(r.v)
        THEN [ok |-> TRUE, payload |-> PayloadOf(r.v)]
        ELSE [ok |-> FALSE, payload |-> ZeroPayload]

----------------------------------------------------------------------------
(* internal/core/service: archive building and parsing *)

BackupVersion == 1

\* domain.BackupMagic = []byte("INFBK")
BackupMagic == <<73, 78, 70, 66, 75>>

archiveHeaderSize == 5 + 1 + NonceSize + SaltSize

ErrBackupTooLarge == "ErrBackupTooLarge"

ErrBackupInvalidFormat == "ErrBackupInvalidFormat"

ErrBackupVersionMismatch == "ErrBackupVersionMismatch"

ErrBackupDecryptionFailed == "ErrBackupDecryptionFailed"

\* a layout with the salt ahead of the nonce, which parseArchive does not read
buildArchiveSaltFirst(payload, password, salt, nonce) ==
    LET compressed == Compress(Marshal(payload), FALSE)
        key        == DeriveBackupKey(password, BackupPepper, salt, toCryptoParams)
        enc        == Encrypt(compressed.out, key, nonce)
    IN  [err |-> "",
         archive |-> BackupMagic \o <<BackupVersion % 256>> \o salt \o enc.nonce
                     \o enc.ciphertext]

\* buildArchive with the salt and nonce that crypto/rand produced:
\* [err, archive]
\* an archive without the version byte
buildArchiveNoVersion(payload, password, salt, nonce) ==
    LET key == DeriveBackupKey(password, BackupPepper, salt, toCryptoParams)
        enc == Encrypt(Compress(Marshal(payload), FALSE).out, key, nonce)
    IN  [err |-> "", archive |-> BackupMagic \o enc.nonce \o salt \o enc.ciphertext]

buildArchive(payload, password, salt, nonce) ==
    LET jsonData   == Marshal(payload)
        compressed == Compress(jsonData, FALSE)
        key        == DeriveBackupKey(password, BackupPepper, salt, toCryptoParams)
        enc        == Encrypt(compressed.out, key, nonce)
    IN  IF compressed.err # ""
        THEN [err |-> "compressing payload", archive |-> <<>>]
        ELSE IF enc.err # ""
        THEN [err |-> "encrypting payload", archive |-> <<>>]
        ELSE [err |-> "",
              archive |-> BackupMagic \o <<BackupVersion % 256>> \o enc.nonce
                          \o salt \o enc.ciphertext]

\* a []byte that was read from a stream: its first bytes, and the number of
\* zero bytes that follow them
Buf(bytes) == [bytes |-> bytes, more |-> 0]

\* len(data)
DataLen(data) == Len(data.bytes) + data.more

\* data[i], with Go's index from 0
ByteAt(data, i) == IF i < Len(data.bytes) THEN data.bytes[i + 1] ELSE 0

\* data[lo:hi]
Slice(data, lo, hi) == [k \in 1..(hi - lo) |-> ByteAt(data, lo + k - 1)]

\* a comparison of the first four bytes only
HasMagicPrefix(data) == Slice(data, 0, 4) = SubSeq(BackupMagic, 1, 4)

\* bytes.Equal(data[:5], domain.BackupMagic)
HasMagic(data) == Slice(data, 0, 5) = BackupMagic

\* a check that lets every later version through
VersionAtLeast(version) == version >= BackupVersion

\* int(version) == domain.BackupVersion
VersionSupported(version) == version = BackupVersion

\* parseArchive: [err, payload, steps]; payload is Nil or a pointer to the
\* decoded payload; steps lists, in order, the stages the call went through
\* before it returned
parseArchive(data, password) ==
    IF DataLen(data) < archiveHeaderSize
    THEN [err |-> ErrBackupInvalidFormat, payload |-> Nil, steps |-> <<"length">>]
    ELSE IF ~HasMagic(data)
    THEN [err |-> ErrBackupInvalidFormat, payload |-> Nil,
          steps |-> <<"length", "magic">>]
    ELSE IF ~VersionSupported(ByteAt(data, 5))
    THEN [err |-> ErrBackupVersionMismatch, payload |-> Nil,
          steps |-> <<"length", "magic", "version">>]
    ELSE
    LET offset0    == 6
        nonce      == Slice(data, offset0, offset0 + NonceSize)
        offset1    == offset0 + NonceSize
        salt       == Slice(data, offset1, offset1 + SaltSize)
        offset2    == offset1 + SaltSize
        ciphertext == Slice(data, offset2, DataLen(data))
        key        == DeriveBackupKey(password, BackupPepper, salt, toCryptoParams)
        dec        == Decrypt(ciphertext, key, nonce)
        unz        == Decompress(dec.plaintext, FALSE)
        js         == Unmarshal(unz.out)
        hdr        == <<"length", "magic", "version", "derive", "decrypt">>
    IN  IF dec.err # ""
        THEN [err |-> ErrBackupDecryptionFailed, payload |-> Nil, steps |-> hdr]
        ELSE IF unz.err # ""
        THEN [err |-> "decompressing backup", payload |-> Nil,
              steps |-> Append(hdr, "decompress")]
        ELSE IF ~js.ok
        THEN [err |-> "unmarshaling backup", payload |-> Nil,
              steps |-> hdr \o <<"decompress", "unmarshal">>]
        ELSE [err |-> "", payload |-> Ptr(js.payload),
              steps |-> hdr \o <<"decompress", "unmarshal">>]

----------------------------------------------------------------------------
(* State *)

VARIABLES
    db,          \* the storage collections, each in insertion order
    oidCounter,  \* the last ObjectID that primitive.NewObjectID handed out
    rst,         \* the RestoreBackup call in progress
    bk,          \* the CreateBackup call in progress
    arc,         \* one buildArchive / parseArchive experiment
    codec,       \* the package variables of compression, and the calls into it
    seen         \* the storage states since the CreateBackup call began

MaxCallers == 2

MaxCalls == 2

vars == <<db, oidCounter, rst, bk, arc, codec, seen>>

\* package compression before its first call: no encoder, no decoder, both
\* sync.Once unused, no call in progress
Callers == 1..MaxCallers

CallIdle ==
    [pc |-> "off", kind |-> "", used |-> 0, err |-> "", cause |-> "", out |-> <<>>,
     n |-> 0]

CodecIdle ==
    [encoder |-> Nil, decoder |-> Nil, initEncErr |-> "", initDecErr |-> "",
     encoderOnce |-> "new", decoderOnce |-> "new",
     built |-> [enc |-> 0, dec |-> 0],
     calls |-> [c \in Callers |-> CallIdle]]

----------------------------------------------------------------------------
(* Inputs *)

Passwords == {<<112, 119, 49>>, <<112, 119>>}

\* what crypto/rand delivered for the salt and the nonce of one archive
RandomDraws ==
    {[salt |-> [i \in 1..SaltSize |-> 0], nonce |-> [i \in 1..NonceSize |-> 0]],
     [salt |-> [i \in 1..SaltSize |-> (7 * i) % 256],
      nonce |-> [i \in 1..NonceSize |-> 255 - i]]}

MkProject(id, name) ==
    [ID |-> id, Name |-> name, Description |-> name, KeyEpoch |-> <<49>>,
     CreatedAt |-> <<84>>, UpdatedAt |-> <<84>>]

MkKeyring(epoch, secret) ==
    [Epoch |-> epoch, SecretPassphrase |-> secret,
     SecretSigningPrivateKey |-> secret, SigningPublicKey |-> <<80>>]

MkMember(n, secret) ==
    [PublicKey |-> <<80>>, EncryptedPrivateKey |-> secret,
     Keyrings |-> [i \in 1..n |-> MkKeyring(<<48 + i>>, secret)]]

MkDiagram(id, parent, text, blob) ==
    [ID |-> id, ParentDiagramID |-> parent, DiagramName |-> text,
     Description |-> text, EncryptedData |-> blob,
     EncryptedDataSignature |-> text, CreatedAt |-> <<84>>, UpdatedAt |-> <<84>>]

MkNode(id, diagram, text) ==
    [ID |-> id, DiagramID |-> diagram, EncryptedReadme |-> text,
     EncryptedReadmeSignature |-> text, EncryptedDict |-> text,
     EncryptedDictSignature |-> text, CreatedAt |-> <<84>>, UpdatedAt |-> <<84>>]

MkVault(id, node, text, blob) ==
    [ID |-> id, NodeID |-> node, Label |-> text, Type |-> <<112>>,
     EncryptedValue |-> blob, EncryptedValueSignature |-> blob,
     CreatedAt |-> <<84>>, UpdatedAt |-> <<84>>]

MkNote(id, parent, type, text, blob) ==
    [ID |-> id, ParentID |-> parent, Type |-> type, FileName |-> text,
     Icon |-> text, EncryptedContent |-> blob, EncryptedContentSignature |-> blob,
     CreatedAt |-> <<84>>, UpdatedAt |-> <<84>>]

TypeFolder == <<102, 111, 108, 100, 101, 114>>

TypeNote == <<110, 111, 116, 101>>

----------------------------------------------------------------------------
(* Storage collaborators (the mgod repositories over MongoDB collections) *)

\* primitive.NewObjectID(): a value no ObjectID in use equals
NewObjectID(counter) == counter + 1

\* the zero time.Time, and the reading of time.Now() in this model
ZeroTime == 0

TimeNow == 1

IDsOf(coll) == {coll[i].ID : i \in DOMAIN coll}

\* model.InsertOne(ctx, doc): the driver gives a document whose _id is the
\* zero ObjectID and omitted a new ObjectID; the collection refuses a second
\* document with the same _id; any insert can fail in the storage layer
\* (storageOK = FALSE).  [ok, coll, doc, counter]
\* a write that stores the document in place of the last stored one
InsertOneOverwriting(coll, doc, omitEmptyID, counter, storageOK) ==
    LET stored == IF omitEmptyID /\ doc.ID = NilObjectID
                  THEN [doc EXCEPT !.ID = NewObjectID(counter)] ELSE doc
    IN  IF storageOK
        THEN [ok |-> TRUE,
              coll |-> Append(SubSeq(coll, 1, Len(coll) - 1), stored),
              doc |-> stored, counter |-> NewObjectID(counter)]
        ELSE [ok |-> FALSE, coll |-> coll, doc |-> doc, counter |-> NewObjectID(counter)]

\* a write that, when it fails, takes back the last stored document
InsertOneRollingBack(coll, doc, omitEmptyID, counter, storageOK) ==
    LET genID    == omitEmptyID /\ doc.ID = NilObjectID
        stored   == IF genID THEN [doc EXCEPT !.ID = NewObjectID(counter)] ELSE doc
        counter2 == IF genID THEN NewObjectID(counter) ELSE counter
    IN  IF storageOK /\ stored.ID \notin IDsOf(coll)
        THEN [ok |-> TRUE, coll |-> Append(coll, stored), doc |-> stored,
              counter |-> counter2]
        ELSE [ok |-> FALSE, coll |-> SubSeq(coll, 1, Len(coll) - 1), doc |-> doc,
              counter |-> counter2]

\* a write that replaces a stored document with the same _id
InsertOneUpserting(coll, doc, omitEmptyID, counter, storageOK) ==
    LET genID    == omitEmptyID /\ doc.ID = NilObjectID
        stored   == IF genID THEN [doc EXCEPT !.ID = NewObjectID(counter)] ELSE doc
        counter2 == IF genID THEN NewObjectID(counter) ELSE counter
    IN  IF storageOK
        THEN [ok |-> TRUE,
              coll |-> Append(SelectSeq(coll, LAMBDA d : d.ID # stored.ID), stored),
              doc |-> stored, counter |-> counter2]
        ELSE [ok |-> FALSE, coll |-> coll, doc |-> doc, counter |-> counter2]

InsertOne(coll, doc, omitEmptyID, counter, storageOK) ==
    LET genID   == omitEmptyID /\ doc.ID = NilObjectID
        stored  == IF genID THEN [doc EXCEPT !.ID = NewObjectID(counter)] ELSE doc
        counter2 == IF genID THEN NewObjectID(counter) ELSE counter
    IN  IF storageOK /\ stored.ID \notin IDsOf(coll)
        THEN [ok |-> TRUE, coll |-> Append(coll, stored), doc |-> stored,
              counter |-> counter2]
        ELSE [ok |-> FALSE, coll |-> coll, doc |-> doc, counter |-> counter2]

----------------------------------------------------------------------------
(* internal/core/service: RestoreBackup *)

MaxBackupSize == 100 * 1024 * 1024

PermissionManageProject == "manage_project"

RolePresets ==
    [owner  |-> <<"view_diagram", "edit_diagram", "view_note", "edit_note",
                  "view_vault", "edit_vault", PermissionManageProject>>,
     editor |-> <<"view_diagram", "edit_diagram", "view_note", "edit_note",
                  "view_vault">>,
     viewer |-> <<"view_diagram", "view_note">>]

\* idMap: a Go map from payload id strings to new ObjectIDs
EmptyMap == <<>>

MapHas(m, k) == k \in DOMAIN m

MapPut(m, k, v) == [x \in (DOMAIN m) \cup {k} |-> IF x = k THEN v ELSE m[x]]

\* m[k] of a Go map: the zero value when the key is absent
MapGet(m, k) == IF MapHas(m, k) THEN m[k] ELSE NilObjectID

\* a single pass: when an entity is inserted only the id of the first
\* entity of the list is known
PreGenerateHeadOnly(list, k, idMap, counter) ==
    IF list = <<>> THEN [idMap |-> idMap, counter |-> counter]
    ELSE [idMap |-> MapPut(idMap, list[1].ID, NewObjectID(counter)),
          counter |-> NewObjectID(counter)]

RECURSIVE PreGenerate(_, _, _, _), PreGenerateByPosition(_, _, _, _)

\* new ids that are a function of the position in the list
PreGenerateByPosition(list, k, idMap, counter) ==
    IF k > Len(list) THEN [idMap |-> idMap, counter |-> counter]
    ELSE PreGenerateByPosition(list, k + 1, MapPut(idMap, list[k].ID, 100 + k), counter)

\* for _, e := range list { idMap[e.ID] = primitive.NewObjectID() }
PreGenerate(list, k, idMap, counter) ==
    IF k > Len(list) THEN [idMap |-> idMap, counter |-> counter]
    ELSE PreGenerate(list, k + 1, MapPut(idMap, list[k].ID, NewObjectID(counter)),
                     NewObjectID(counter))

\* an input stream: bytes, followed by `more` further bytes, ended by EOF or
\* (fail) by a read error
StreamSize(st) == Len(st.bytes) + st.more

\* io.ReadAll(backupReader), without a limit
ReadAllUnlimited(st, limit) ==
    IF st.fail
    THEN [err |-> TRUE, data |-> [bytes |-> <<>>, more |-> 0], read |-> StreamSize(st)]
    ELSE [err |-> FALSE, data |-> [bytes |-> st.bytes, more |-> st.more],
          read |-> StreamSize(st)]

\* io.ReadAll(io.LimitReader(backupReader, limit)): [err, data, read]; the
\* limit reader reports EOF once limit bytes were delivered, so the end of
\* the stream is only seen when the stream is shorter than the limit
ReadAllLimited(st, limit) ==
    IF StreamSize(st) < limit /\ st.fail
    THEN [err |-> TRUE, data |-> [bytes |-> <<>>, more |-> 0], read |-> StreamSize(st)]
    ELSE IF Len(st.bytes) >= limit
    THEN [err |-> FALSE, data |-> [bytes |-> SubSeq(st.bytes, 1, limit), more |-> 0],
          read |-> limit]
    ELSE LET more == IF st.more < limit - Len(st.bytes) THEN st.more
                     ELSE limit - Len(st.bytes)
         IN  [err |-> FALSE, data |-> [bytes |-> st.bytes, more |-> more],
              read |-> Len(st.bytes) + more]

NoOut == [diagrams |-> <<>>, nodes |-> <<>>, vaults |-> <<>>, notes |-> <<>>]

\* a RestoreBackup call that has not been made
RstIdle ==
    [pc |-> "off", userID |-> NilObjectID, password |-> <<>>,
     stream |-> [bytes |-> <<>>, more |-> 0, fail |-> FALSE],
     payload |-> Nil, idMap |-> EmptyMap, newProjectID |-> NilObjectID, i |-> 0,
     err |-> "", project |-> Nil, steps |-> <<>>, out |-> NoOut]

\* the locals of the call after the loop of `stage` was reached: the ids of
\* the stage are pre-generated, and a stage with nothing to insert falls
\* through to the next one.  [loc, counter]
RECURSIVE EnterStage(_, _, _)
EnterStage(stage, loc, counter) ==
    LET p == loc.payload[1]
    IN  CASE stage = "diagrams" ->
               LET g == PreGenerate(p.Diagrams, 1, loc.idMap, counter)
                   l == [loc EXCEPT !.idMap = g.idMap, !.pc = "diagrams", !.i = 1]
               IN  IF p.Diagrams = <<>> THEN EnterStage("nodes", l, g.counter)
                   ELSE [loc |-> l, counter |-> g.counter]
          [] stage = "nodes" ->
               LET g == PreGenerate(p.Nodes, 1, loc.idMap, counter)
                   l == [loc EXCEPT !.idMap = g.idMap, !.pc = "nodes", !.i = 1]
               IN  IF p.Nodes = <<>> THEN EnterStage("vaults", l, g.counter)
                   ELSE [loc |-> l, counter |-> g.counter]
          [] stage = "vaults" ->
               LET l == [loc EXCEPT !.pc = "vaults", !.i = 1]
               IN  IF p.Vaults = <<>> THEN EnterStage("notes", l, counter)
                   ELSE [loc |-> l, counter |-> counter]
          [] stage = "notes" ->
               LET g == PreGenerate(p.Notes, 1, loc.idMap, counter)
                   l == [loc EXCEPT !.idMap = g.idMap, !.pc = "notes", !.i = 1]
               IN  IF p.Notes = <<>> THEN EnterStage("return", l, g.counter)
                   ELSE [loc |-> l, counter |-> g.counter]
          [] OTHER ->
               [loc |-> [loc EXCEPT !.pc = "done", !.i = 0], counter |-> counter]

NextStage(stage) ==
    CASE stage = "diagrams" -> "nodes"
      [] stage = "nodes"    -> "vaults"
      [] stage = "vaults"   -> "notes"
      [] OTHER              -> "return"

\* the locals after item i of the list of `stage` (n items) was inserted
AfterInsert(stage, n, loc, counter) ==
    IF loc.i < n THEN [loc |-> [loc EXCEPT !.i = @ + 1], counter |-> counter]
    ELSE EnterStage(NextStage(stage), loc, counter)

\* an error that is noted while the call goes on to insertRestoredData
\* with the zero payload
RstFailKeepGoing(loc, what) ==
    [loc EXCEPT !.pc = "insert", !.err = what, !.payload = Ptr(ZeroPayload)]

\* return nil, fmt.Errorf("<what>: %w", err)
RstFail(loc, what) == [loc EXCEPT !.pc = "done", !.err = what, !.project = Nil]

\* a parent pointer remapped through idMap: nil when the payload has none or
\* the map does not know it
RemapParent(parent, idMap) ==
    IF parent # Nil /\ MapHas(idMap, parent[1]) THEN Ptr(idMap[parent[1]]) ELSE Nil

restoredDiagram(d, idMap, newProjectID) ==
    [ID |-> MapGet(idMap, d.ID), ProjectID |-> newProjectID,
     ParentDiagramID |-> RemapParent(d.ParentDiagramID, idMap),
     DiagramName |-> d.DiagramName, Description |-> d.Description,
     EncryptedData |-> d.EncryptedData,
     EncryptedDataSignature |-> d.EncryptedDataSignature,
     CreatedAt |-> ZeroTime, UpdatedAt |-> ZeroTime]

restoredNode(n, idMap) ==
    [ID |-> MapGet(idMap, n.ID), DiagramID |-> MapGet(idMap, n.DiagramID),
     EncryptedReadme |-> n.EncryptedReadme,
     EncryptedReadmeSignature |-> n.EncryptedReadmeSignature,
     EncryptedDict |-> n.EncryptedDict,
     EncryptedDictSignature |-> n.EncryptedDictSignature,
     CreatedAt |-> ZeroTime, UpdatedAt |-> ZeroTime]

\* a vault that is given no project
restoredVaultWithoutProject(v, idMap, newProjectID) ==
    [ID |-> NilObjectID, ProjectId |-> NilObjectID, NodeId |-> MapGet(idMap, v.NodeID),
     Label |-> v.Label, Type |-> v.Type, EncryptedValue |-> v.EncryptedValue,
     EncryptedValueSignature |-> v.EncryptedValueSignature,
     CreatedAt |-> ZeroTime, UpdatedAt |-> ZeroTime]

restoredVault(v, idMap, newProjectID) ==
    [ID |-> NilObjectID, ProjectId |-> newProjectID, NodeId |-> MapGet(idMap, v.NodeID),
     Label |-> v.Label, Type |-> v.Type, EncryptedValue |-> v.EncryptedValue,
     EncryptedValueSignature |-> v.EncryptedValueSignature,
     CreatedAt |-> ZeroTime, UpdatedAt |-> ZeroTime]

restoredNote(n, idMap, newProjectID) ==
    [ID |-> MapGet(idMap, n.ID), ProjectID |-> newProjectID,
     ParentID |-> RemapParent(n.ParentID, idMap), Type |-> n.Type,
     FileName |-> n.FileName, Icon |-> n.Icon,
     EncryptedContent |-> n.EncryptedContent,
     EncryptedContentSignature |-> n.EncryptedContentSignature,
     CreatedAt |-> ZeroTime, UpdatedAt |-> ZeroTime]

Restorers == {1, 2}

\* a size check that is off by one byte beyond the read limit
ExceedsReadLimit(data) == DataLen(data) > MaxBackupSize + 1

\* len(data) > MaxBackupSize
ExceedsMaxBackupSize(data) == DataLen(data) > MaxBackupSize

\* RestoreBackup up to the call of insertRestoredData: read the stream with
\* the limit, check the size, parse the archive
RestoreBackup(r) ==
    /\ rst[r].pc = "start"
    /\ LET loc == rst[r]
           rd  == ReadAllLimited(loc.stream, MaxBackupSize + 1)
           res == parseArchive(rd.data, loc.password)
       IN  rst' = [rst EXCEPT ![r] =
             IF rd.err
             THEN [RstFail(loc, "reading backup file") EXCEPT !.steps = <<"read">>]
             ELSE IF ExceedsMaxBackupSize(rd.data)
             THEN [RstFail(loc, ErrBackupTooLarge) EXCEPT !.steps = <<"read", "size">>]
             ELSE IF res.err # ""
             THEN [RstFail(loc, res.err) EXCEPT !.steps = <<"read", "size">> \o res.steps]
             ELSE [loc EXCEPT !.pc = "insert", !.payload = res.payload,
                              !.steps = <<"read", "size">> \o res.steps]]
    /\ UNCHANGED <<db, oidCounter, bk, arc, codec, seen>>

\* insertRestoredData, step 1: the new project
CreateProject(r) ==
    /\ rst[r].pc = "insert"
    /\ \E storageOK \in BOOLEAN :
        LET loc          == rst[r]
            p            == loc.payload[1]
            newProjectID == NewObjectID(oidCounter)
            idMap        == MapPut(EmptyMap, p.Project.ID, newProjectID)
            project      == [ID |-> newProjectID, Name |-> p.Project.Name,
                             Description |-> p.Project.Description,
                             KeyEpoch |-> p.Project.KeyEpoch,
                             CreatedAt |-> TimeNow, UpdatedAt |-> TimeNow]
            ins          == InsertOne(db.projects, project, TRUE, newProjectID, storageOK)
            loc1         == [loc EXCEPT !.idMap = idMap, !.newProjectID = newProjectID,
                                        !.steps = Append(@, "create project")]
        IN  /\ db' = [db EXCEPT !.projects = ins.coll]
            /\ oidCounter' = ins.counter
            /\ rst' = [rst EXCEPT ![r] =
                 IF ins.ok THEN [loc1 EXCEPT !.pc = "member", !.project = Ptr(ins.doc)]
                 ELSE RstFail(loc1, "inserting restored data: creating project")]
    /\ UNCHANGED <<bk, arc, codec, seen>>

\* a membership that takes over the first keyring of the backup only
ownerMemberFirstKeyring(m, newProjectID, userID) ==
    [ID |-> NilObjectID, ProjectID |-> newProjectID, UserID |-> userID,
     Role |-> "owner", Permissions |-> RolePresets["owner"],
     PublicKey |-> m.PublicKey, EncryptedPrivateKey |-> m.EncryptedPrivateKey,
     Keyrings |-> SubSeq(m.Keyrings, 1, 1)]

\* the domain.ProjectMember that insertRestoredData creates from the
\* member of the payload
ownerMember(m, newProjectID, userID) ==
    LET keyrings == [i \in 1..Len(m.Keyrings) |->
                       [Epoch |-> m.Keyrings[i].Epoch,
                        SecretPassphrase |-> m.Keyrings[i].SecretPassphrase,
                        SecretSigningPrivateKey |-> m.Keyrings[i].SecretSigningPrivateKey,
                        SigningPublicKey |-> m.Keyrings[i].SigningPublicKey]]
    IN  [ID |-> NilObjectID, ProjectID |-> newProjectID, UserID |-> userID,
         Role |-> "owner", Permissions |-> RolePresets["owner"],
         PublicKey |-> m.PublicKey, EncryptedPrivateKey |-> m.EncryptedPrivateKey,
         Keyrings |-> keyrings]

\* step 2: the owner membership, with the keyrings of the backup
CreateMember(r) ==
    /\ rst[r].pc = "member"
    /\ \E storageOK \in BOOLEAN :
        LET loc         == rst[r]
            member      == ownerMember(loc.payload[1].Member, loc.newProjectID,
                                       loc.userID)
            ins         == InsertOne(db.members, member, TRUE, oidCounter, storageOK)
            loc1        == [loc EXCEPT !.steps = Append(@, "create member")]
            nxt         == EnterStage("diagrams", loc1, ins.counter)
        IN  /\ db' = [db EXCEPT !.members = ins.coll]
            /\ IF ins.ok
               THEN rst' = [rst EXCEPT ![r] = nxt.loc] /\ oidCounter' = nxt.counter
               ELSE /\ rst' = [rst EXCEPT ![r] =
                          RstFail(loc1, "inserting restored data: creating owner member")]
                    /\ oidCounter' = ins.counter
    /\ UNCHANGED <<bk, arc, codec, seen>>

\* step 3: one diagramRepo.Create of the diagram loop
InsertDiagram(r) ==
    /\ rst[r].pc = "diagrams"
    /\ \E storageOK \in BOOLEAN :
        LET loc  == rst[r]
            list == loc.payload[1].Diagrams
            doc  == restoredDiagram(list[loc.i], loc.idMap, loc.newProjectID)
            ins  == InsertOne(db.diagrams, doc, TRUE, oidCounter, storageOK)
            loc1 == [loc EXCEPT !.steps = Append(@, "create diagram")]
            nxt  == AfterInsert("diagrams", Len(list),
                                [loc1 EXCEPT !.out.diagrams = Append(@, ins.doc)],
                                ins.counter)
        IN  /\ db' = [db EXCEPT !.diagrams = ins.coll]
            /\ IF ins.ok
               THEN rst' = [rst EXCEPT ![r] = nxt.loc] /\ oidCounter' = nxt.counter
               ELSE /\ rst' = [rst EXCEPT ![r] =
                          RstFail(loc1, "inserting restored data: creating diagram")]
                    /\ oidCounter' = ins.counter
    /\ UNCHANGED <<bk, arc, codec, seen>>

\* step 4: one nodeRepo.Create of the node loop (the node's _id is always sent)
InsertNode(r) ==
    /\ rst[r].pc = "nodes"
    /\ \E storageOK \in BOOLEAN :
        LET loc  == rst[r]
            list == loc.payload[1].Nodes
            doc  == restoredNode(list[loc.i], loc.idMap)
            ins  == InsertOne(db.nodes, doc, FALSE, oidCounter, storageOK)
            loc1 == [loc EXCEPT !.steps = Append(@, "create node")]
            nxt  == AfterInsert("nodes", Len(list),
                                [loc1 EXCEPT !.out.nodes = Append(@, ins.doc)],
                                ins.counter)
        IN  /\ db' = [db EXCEPT !.nodes = ins.coll]
            /\ IF ins.ok
               THEN rst' = [rst EXCEPT ![r] = nxt.loc] /\ oidCounter' = nxt.counter
               ELSE /\ rst' = [rst EXCEPT ![r] =
                          RstFail(loc1, "inserting restored data: creating node")]
                    /\ oidCounter' = ins.counter
    /\ UNCHANGED <<bk, arc, codec, seen>>

\* step 5: one nodeVaultRepo.Create of the vault loop
InsertVault(r) ==
    /\ rst[r].pc = "vaults"
    /\ \E storageOK \in BOOLEAN :
        LET loc  == rst[r]
            list == loc.payload[1].Vaults
            doc  == restoredVault(list[loc.i], loc.idMap, loc.newProjectID)
            ins  == InsertOne(db.vaults, doc, TRUE, oidCounter, storageOK)
            loc1 == [loc EXCEPT !.steps = Append(@, "create vault")]
            nxt  == AfterInsert("vaults", Len(list),
                                [loc1 EXCEPT !.out.vaults = Append(@, ins.doc)],
                                ins.counter)
        IN  /\ db' = [db EXCEPT !.vaults = ins.coll]
            /\ IF ins.ok
               THEN rst' = [rst EXCEPT ![r] = nxt.loc] /\ oidCounter' = nxt.counter
               ELSE /\ rst' = [rst EXCEPT ![r] =
                          RstFail(loc1, "inserting restored data: creating vault")]
                    /\ oidCounter' = ins.counter
    /\ UNCHANGED <<bk, arc, codec, seen>>

\* step 6: one noteRepo.Create of the note loop
InsertNote(r) ==
    /\ rst[r].pc = "notes"
    /\ \E storageOK \in BOOLEAN :
        LET loc  == rst[r]
            list == loc.payload[1].Notes
            doc  == restoredNote(list[loc.i], loc.idMap, loc.newProjectID)
            ins  == InsertOne(db.notes, doc, TRUE, oidCounter, storageOK)
            loc1 == [loc EXCEPT !.steps = Append(@, "create note")]
            nxt  == AfterInsert("notes", Len(list),
                                [loc1 EXCEPT !.out.notes = Append(@, ins.doc)],
                                ins.counter)
        IN  /\ db' = [db EXCEPT !.notes = ins.coll]
            /\ IF ins.ok
               THEN rst' = [rst EXCEPT ![r] = nxt.loc] /\ oidCounter' = nxt.counter
               ELSE /\ rst' = [rst EXCEPT ![r] =
                          RstFail(loc1, "inserting restored data: creating note")]
                    /\ oidCounter' = ins.counter
    /\ UNCHANGED <<bk, arc, codec, seen>>

insertRestoredData(r) ==
    \/ CreateProject(r) \/ CreateMember(r) \/ InsertDiagram(r)
    \/ InsertNode(r) \/ InsertVault(r) \/ InsertNote(r)

----------------------------------------------------------------------------
(* internal/core/service: CreateBackup *)

ErrProjectAccessDenied == "ErrProjectAccessDenied"

ErrInsufficientPermission == "ErrInsufficientPermission"

ErrNoDocuments == "mongo.ErrNoDocuments"

ErrStorage == "storage error"

FirstOf(S) == CHOOSE i \in S : \A j \in S : i <= j

\* the documents that a filter bson.M{field: value} selects (value one of
\* `values`), as positions in the collection
Matching(coll, field, values) == {i \in DOMAIN coll : coll[i][field] \in values}

\* the documents at the positions `hits`, in storage order
Pick(coll, hits) ==
    [k \in 1..Cardinality(hits) |->
        coll[CHOOSE i \in hits : Cardinality({j \in hits : j < i}) = k - 1]]

\* model.FindOne(ctx, filter): [err, doc]
FindOne(coll, hits, storageOK) ==
    IF ~storageOK THEN [err |-> ErrStorage, doc |-> Nil]
    ELSE IF hits = {} THEN [err |-> ErrNoDocuments, doc |-> Nil]
    ELSE [err |-> "", doc |-> Ptr(coll[FirstOf(hits)])]

\* a query that answers a storage failure with no documents and no error
FindLenient(coll, hits, storageOK) ==
    IF ~storageOK THEN [err |-> "", docs |-> <<>>]
    ELSE [err |-> "", docs |-> Pick(coll, hits)]

\* model.Find(ctx, filter): [err, docs]
Find(coll, hits, storageOK) ==
    IF ~storageOK THEN [err |-> ErrStorage, docs |-> <<>>]
    ELSE [err |-> "", docs |-> Pick(coll, hits)]

FindByProjectAndUser(members, projectID, userID, storageOK) ==
    FindOne(members,
            Matching(members, "ProjectID", {projectID})
               \cap Matching(members, "UserID", {userID}),
            storageOK)

FindByID(coll, id, storageOK) == FindOne(coll, Matching(coll, "ID", {id}), storageOK)

FindAllByProjectID(diagrams, projectID, storageOK) ==
    Find(diagrams, Matching(diagrams, "ProjectID", {projectID}), storageOK)

\* a node query that looks at the first diagram only
FindByFirstDiagramID(nodes, diagramIDs, storageOK) ==
    Find(nodes, Matching(nodes, "DiagramID", {diagramIDs[1]}), storageOK)

FindByDiagramIDs(nodes, diagramIDs, storageOK) ==
    Find(nodes, Matching(nodes, "DiagramID", Range(diagramIDs)), storageOK)

FindVaultsByProjectID(vaults, projectID, storageOK) ==
    Find(vaults, Matching(vaults, "ProjectId", {projectID}), storageOK)

\* the collation of the note query: letters compare without their case
Fold(c) == IF c \in 97..122 THEN c - 32 ELSE c

RECURSIVE NameLess(_, _)
NameLess(a, b) ==
    IF a = <<>> THEN b # <<>>
    ELSE IF b = <<>> THEN FALSE
    ELSE IF Fold(Head(a)) # Fold(Head(b)) THEN Fold(Head(a)) < Fold(Head(b))
    ELSE NameLess(Tail(a), Tail(b))

\* the documents in the order of their file names; documents whose names
\* compare equal stay in storage order
RECURSIVE SortByFileName(_)
SortByFileName(docs) ==
    IF docs = <<>> THEN <<>>
    ELSE LET k == FirstOf({i \in DOMAIN docs :
                             \A j \in DOMAIN docs :
                                 ~NameLess(docs[j].FileName, docs[i].FileName)})
         IN  <<docs[k]>>
             \o SortByFileName(SubSeq(docs, 1, k - 1) \o SubSeq(docs, k + 1, Len(docs)))

\* noteRepository.FindByProjectID: the notes of the project, sorted by file name
FindNotesByProjectID(notes, projectID, storageOK) ==
    LET f == Find(notes, Matching(notes, "ProjectID", {projectID}), storageOK)
    IN  [err |-> f.err, docs |-> SortByFileName(f.docs)]

\* a check that every member of the project passes
HasPermissionAnyMember(members, projectID, userID, permission, storageOK) ==
    LET f == FindByProjectAndUser(members, projectID, userID, storageOK)
    IN  IF f.err = ErrNoDocuments THEN ErrProjectAccessDenied ELSE f.err

\* ProjectService.HasPermission: "" for nil, or the error
HasPermission(members, projectID, userID, permission, storageOK) ==
    LET f == FindByProjectAndUser(members, projectID, userID, storageOK)
    IN  IF f.err = ErrNoDocuments THEN ErrProjectAccessDenied
        ELSE IF f.err # "" THEN f.err
        ELSE IF permission \in Range(f.doc[1].Permissions) THEN ""
        ELSE ErrInsufficientPermission

\* t.Format(time.RFC3339)
FormatRFC3339(t) == <<84, 48 + t>>

\* time.Now().Format("20060102_150405")
FormatStamp(t) == <<48 + t>>

OptHex(opt) == IF opt = Nil THEN Nil ELSE Ptr(Hex(opt[1]))

toProjectBackup(p) ==
    [ID |-> Hex(p.ID), Name |-> p.Name, Description |-> p.Description,
     KeyEpoch |-> p.KeyEpoch, CreatedAt |-> FormatRFC3339(p.CreatedAt),
     UpdatedAt |-> FormatRFC3339(p.UpdatedAt)]

toMemberBackup(m) ==
    [PublicKey |-> m.PublicKey, EncryptedPrivateKey |-> m.EncryptedPrivateKey,
     Keyrings |-> [i \in 1..Len(m.Keyrings) |->
                     [Epoch |-> m.Keyrings[i].Epoch,
                      SecretPassphrase |-> m.Keyrings[i].SecretPassphrase,
                      SecretSigningPrivateKey |-> m.Keyrings[i].SecretSigningPrivateKey,
                      SigningPublicKey |-> m.Keyrings[i].SigningPublicKey]]]

toDiagramBackups(diagrams) ==
    [i \in 1..Len(diagrams) |->
        LET d == diagrams[i]
        IN  [ID |-> Hex(d.ID), ParentDiagramID |-> OptHex(d.ParentDiagramID),
             DiagramName |-> d.DiagramName, Description |-> d.Description,
             EncryptedData |-> d.EncryptedData,
             EncryptedDataSignature |-> d.EncryptedDataSignature,
             CreatedAt |-> FormatRFC3339(d.CreatedAt),
             UpdatedAt |-> FormatRFC3339(d.UpdatedAt)]]

toNodeBackups(nodes) ==
    [i \in 1..Len(nodes) |->
        LET n == nodes[i]
        IN  [ID |-> Hex(n.ID), DiagramID |-> Hex(n.DiagramID),
             EncryptedReadme |-> n.EncryptedReadme,
             EncryptedReadmeSignature |-> n.EncryptedReadmeSignature,
             EncryptedDict |-> n.EncryptedDict,
             EncryptedDictSignature |-> n.EncryptedDictSignature,
             CreatedAt |-> FormatRFC3339(n.CreatedAt),
             UpdatedAt |-> FormatRFC3339(n.UpdatedAt)]]

toVaultBackups(vaults) ==
    [i \in 1..Len(vaults) |->
        LET v == vaults[i]
        IN  [ID |-> Hex(v.ID), NodeID |-> Hex(v.NodeId), Label |-> v.Label,
             Type |-> v.Type, EncryptedValue |-> v.EncryptedValue,
             EncryptedValueSignature |-> v.EncryptedValueSignature,
             CreatedAt |-> FormatRFC3339(v.CreatedAt),
             UpdatedAt |-> FormatRFC3339(v.UpdatedAt)]]

toNoteBackups(notes) ==
    [i \in 1..Len(notes) |->
        LET n == notes[i]
        IN  [ID |-> Hex(n.ID), ParentID |-> OptHex(n.ParentID), Type |-> n.Type,
             FileName |-> n.FileName, Icon |-> n.Icon,
             EncryptedContent |-> n.EncryptedContent,
             EncryptedContentSignature |-> n.EncryptedContentSignature,
             CreatedAt |-> FormatRFC3339(n.CreatedAt),
             UpdatedAt |-> FormatRFC3339(n.UpdatedAt)]]

\* sanitizeFilename: letters, digits, '-' and '_' are kept, a space becomes
\* '_', everything else is dropped; "backup" when nothing is left
\* a sanitizer that drops the spaces
sanitizeFilenameDroppingSpaces(name) ==
    LET kept == SelectSeq(name, LAMBDA c : \/ c \in 97..122 \/ c \in 65..90
                                           \/ c \in 48..57 \/ c \in {45, 95})
    IN  IF Len(kept) = 0 THEN <<98, 97, 99, 107, 117, 112>> ELSE kept

sanitizeFilename(name) ==
    LET kept   == SelectSeq(name, LAMBDA c : \/ c \in 97..122 \/ c \in 65..90
                                             \/ c \in 48..57 \/ c \in {45, 95, 32})
        result == [i \in 1..Len(kept) |-> IF kept[i] = 32 THEN 95 ELSE kept[i]]
    IN  IF Len(result) = 0 THEN <<98, 97, 99, 107, 117, 112>> ELSE result

\* fmt.Sprintf("%s_%s.infbk", sanitizeFilename(name), stamp)
BackupFilename(name, t) ==
    sanitizeFilename(name) \o <<95>> \o FormatStamp(t) \o <<46, 105, 110, 102, 98, 107>>

Backupers == {1, 2}

\* a CreateBackup call that has not been made
BkIdle ==
    [pc |-> "off", projectID |-> NilObjectID, userID |-> NilObjectID,
     password |-> <<>>, member |-> Nil, project |-> Nil, diagrams |-> <<>>,
     nodes |-> <<>>, vaults |-> <<>>, payload |-> Nil, err |-> "",
     archive |-> Nil, filename |-> Nil, steps |-> <<>>]

\* return nil, "", err
BkFail(loc, what) ==
    [loc EXCEPT !.pc = "done", !.err = what, !.archive = Nil, !.filename = Nil]

\* CreateBackup up to the call of collectProjectData: the permission check
\* and the lookup of the caller's membership
CreateBackup(b) ==
    /\ bk[b].pc = "start"
    /\ \E permOK \in BOOLEAN, findOK \in BOOLEAN :
        LET loc  == bk[b]
            perm == HasPermission(db.members, loc.projectID, loc.userID,
                                  PermissionManageProject, permOK)
            f    == FindByProjectAndUser(db.members, loc.projectID, loc.userID, findOK)
        IN  bk' = [bk EXCEPT ![b] =
              IF perm # ""
              THEN BkFail([loc EXCEPT !.steps = <<"find member">>], perm)
              ELSE IF f.err # ""
              THEN BkFail([loc EXCEPT !.steps = <<"find member", "find member">>],
                          "fetching member for backup")
              ELSE [loc EXCEPT !.pc = "project", !.member = f.doc,
                               !.steps = <<"find member", "find member">>]]
    /\ UNCHANGED <<db, oidCounter, rst, arc, codec, seen>>

\* collectProjectData: projectRepo.FindByID
FetchProject(b) ==
    /\ bk[b].pc = "project"
    /\ \E storageOK \in BOOLEAN :
        LET loc  == [bk[b] EXCEPT !.steps = Append(@, "read project")]
            f    == FindByID(db.projects, loc.projectID, storageOK)
        IN  bk' = [bk EXCEPT ![b] =
              IF f.err # ""
              THEN BkFail(loc, "collecting project data: fetching project")
              ELSE [loc EXCEPT !.pc = "diagrams", !.project = f.doc]]
    /\ UNCHANGED <<db, oidCounter, rst, arc, codec, seen>>

\* collectProjectData: diagramRepo.FindAllByProjectID; the node query is
\* skipped when the project has no diagram
FetchDiagrams(b) ==
    /\ bk[b].pc = "diagrams"
    /\ \E storageOK \in BOOLEAN :
        LET loc  == [bk[b] EXCEPT !.steps = Append(@, "read diagrams")]
            f    == FindAllByProjectID(db.diagrams, loc.projectID, storageOK)
        IN  bk' = [bk EXCEPT ![b] =
              IF f.err # ""
              THEN BkFail(loc, "collecting project data: fetching diagrams")
              ELSE [loc EXCEPT !.pc = IF Len(f.docs) > 0 THEN "nodes" ELSE "vaults",
                               !.diagrams = f.docs]]
    /\ UNCHANGED <<db, oidCounter, rst, arc, codec, seen>>

\* collectProjectData: nodeRepo.FindByDiagramIDs
FetchNodes(b) ==
    /\ bk[b].pc = "nodes"
    /\ \E storageOK \in BOOLEAN :
        LET loc        == [bk[b] EXCEPT !.steps = Append(@, "read nodes")]
            diagramIDs == [i \in 1..Len(loc.diagrams) |-> loc.diagrams[i].ID]
            f          == FindByDiagramIDs(db.nodes, diagramIDs, storageOK)
        IN  bk' = [bk EXCEPT ![b] =
              IF f.err # ""
              THEN BkFail(loc, "collecting project data: fetching nodes")
              ELSE [loc EXCEPT !.pc = "vaults", !.nodes = f.docs]]
    /\ UNCHANGED <<db, oidCounter, rst, arc, codec, seen>>

\* collectProjectData: nodeVaultRepo.FindByProjectID
FetchVaults(b) ==
    /\ bk[b].pc = "vaults"
    /\ \E storageOK \in BOOLEAN :
        LET loc  == [bk[b] EXCEPT !.steps = Append(@, "read vaults")]
            f    == FindVaultsByProjectID(db.vaults, loc.projectID, storageOK)
        IN  bk' = [bk EXCEPT ![b] =
              IF f.err # ""
              THEN BkFail(loc, "collecting project data: fetching vaults")
              ELSE [loc EXCEPT !.pc = "notes", !.vaults = f.docs]]
    /\ UNCHANGED <<db, oidCounter, rst, arc, codec, seen>>

\* collectProjectData: noteRepo.FindByProjectID, and the payload it returns
FetchNotes(b) ==
    /\ bk[b].pc = "notes"
    /\ \E storageOK \in BOOLEAN :
        LET loc  == [bk[b] EXCEPT !.steps = Append(@, "read notes")]
            f    == FindNotesByProjectID(db.notes, loc.projectID, storageOK)
            payload ==
                [Version   |-> BackupVersion,
                 CreatedAt |-> [wall |-> TimeNow, mono |-> FALSE],
                 Project   |-> toProjectBackup(loc.project[1]),
                 Member    |-> toMemberBackup(loc.member[1]),
                 Diagrams  |-> toDiagramBackups(loc.diagrams),
                 Nodes     |-> toNodeBackups(loc.nodes),
                 Vaults    |-> toVaultBackups(loc.vaults),
                 Notes     |-> toNoteBackups(f.docs)]
        IN  bk' = [bk EXCEPT ![b] =
              IF f.err # ""
              THEN BkFail(loc, "collecting project data: fetching notes")
              ELSE [loc EXCEPT !.pc = "build", !.payload = Ptr(payload)]]
    /\ UNCHANGED <<db, oidCounter, rst, arc, codec, seen>>

\* CreateBackup from buildArchive on: the archive and the file name
BuildBackup(b) ==
    /\ bk[b].pc = "build"
    /\ \E r \in RandomDraws :
        LET loc == bk[b]
            a   == buildArchive(loc.payload[1], loc.password, r.salt, r.nonce)
        IN  bk' = [bk EXCEPT ![b] =
              IF a.err # "" THEN BkFail(loc, "building archive")
              ELSE [loc EXCEPT
                      !.pc = "done", !.archive = Ptr(a.archive),
                      !.filename = Ptr(BackupFilename(loc.payload[1].Project.Name,
                                                      TimeNow))]]
    /\ UNCHANGED <<db, oidCounter, rst, arc, codec, seen>>

collectProjectData(b) ==
    FetchProject(b) \/ FetchDiagrams(b) \/ FetchNodes(b) \/ FetchVaults(b)
    \/ FetchNotes(b)

----------------------------------------------------------------------------
(* Archive experiments: buildArchive on a payload, an optional edit of the *)
(* bytes, then parseArchive                                                 *)

MaxArcEntities == 1

\* the contents of the fields: a text for the strings, a value for the
\* optional blobs, whether the creation time carries a monotonic reading
PayloadVariants ==
    {[text |-> <<>>, blob |-> Nil, mono |-> FALSE],
     [text |-> <<34, 92>>, blob |-> Ptr(<<>>), mono |-> TRUE],
     [text |-> <<97>>, blob |-> Ptr(<<120>>), mono |-> TRUE]}

\* a payload with k entities of each kind, chained: diagram i is the child
\* of diagram i-1, node i sits on diagram i, vault i on node i, and note i
\* lies in folder i-1
ArcPayload(k, text, blob, mono) ==
    [Version   |-> BackupVersion,
     CreatedAt |-> [wall |-> 7, mono |-> mono],
     Project   |-> MkProject(Hex(1), text),
     Member    |-> MkMember(k, text),
     Diagrams  |-> [i \in 1..k |->
                     MkDiagram(Hex(16 + i), IF i = 1 THEN Nil ELSE Ptr(Hex(15 + i)),
                               text, blob)],
     Nodes     |-> [i \in 1..k |-> MkNode(Hex(32 + i), Hex(16 + i), text)],
     Vaults    |-> [i \in 1..k |-> MkVault(Hex(48 + i), Hex(32 + i), text, blob)],
     Notes     |-> [i \in 1..k |->
                     MkNote(Hex(64 + i), IF i = 1 THEN Nil ELSE Ptr(Hex(63 + i)),
                            IF i < k THEN TypeFolder ELSE TypeNote, text, blob)]]

ArchivePayloads ==
    {ArcPayload(k, v.text, v.blob, v.mono) :
        k \in 0..MaxArcEntities, v \in PayloadVariants}

\* replacement headers: a magic and a version byte
ForgedMagics == {BackupMagic, <<73, 78, 70, 66, 76>>, <<105, 78, 70, 66, 75>>,
                 <<0, 0, 0, 0, 0>>}

ForgedVersions == {0, 1, 2, 255}

TamperDeltas == {1}

NoEdit == [kind |-> "none", pos |-> 0]

ArcIdle == [pc |-> "off", P |-> ZeroPayload, W |-> <<>>, rand |-> <<>>,
            data |-> <<>>, edit |-> NoEdit, W2 |-> <<>>,
            res |-> [err |-> "", payload |-> Nil, steps |-> <<>>]]

EmptyDB == [projects |-> <<>>, members |-> <<>>, diagrams |-> <<>>,
            nodes |-> <<>>, vaults |-> <<>>, notes |-> <<>>]

InitArchive ==
    /\ \E P \in ArchivePayloads, W \in Passwords, r \in RandomDraws :
          arc = [ArcIdle EXCEPT !.pc = "start", !.P = P, !.W = W, !.rand = <<r>>]
    /\ db = EmptyDB /\ oidCounter = 0
    /\ rst = [r \in Restorers |-> RstIdle] /\ bk = [b \in Backupers |-> BkIdle]
    /\ codec = CodecIdle /\ seen = {}

\* buildArchive(P, W)
ArcBuild ==
    /\ arc.pc = "start"
    /\ LET b == buildArchive(arc.P, arc.W, arc.rand[1].salt, arc.rand[1].nonce)
       IN  /\ b.err = ""
           /\ arc' = [arc EXCEPT !.pc = "built", !.data = b.archive]
    /\ UNCHANGED <<db, oidCounter, rst, bk, codec, seen>>

\* one byte of the archive file is changed (pos is the 1-based position,
\* pos - 1 the offset)
ArcChangeByte ==
    /\ arc.pc = "built" /\ arc.edit.kind = "none"
    /\ \E pos \in DOMAIN arc.data, delta \in TamperDeltas :
        arc' = [arc EXCEPT !.data[pos] = (@ + delta) % 256,
                           !.edit = [kind |-> "byte", pos |-> pos]]
    /\ UNCHANGED <<db, oidCounter, rst, bk, codec, seen>>

\* the archive file is cut short: to less than a header, to a header with
\* less than a tag behind it, or to a header and a bare tag
ArcTruncate ==
    /\ arc.pc = "built" /\ arc.edit.kind = "none"
    /\ \E n \in 0..(archiveHeaderSize + gcmTagSize) :
        arc' = [arc EXCEPT !.data = SubSeq(arc.data, 1, n),
                           !.edit = [kind |-> "truncate", pos |-> n]]
    /\ UNCHANGED <<db, oidCounter, rst, bk, codec, seen>>

\* the magic and the version byte of the file are replaced
ArcReplaceHeader ==
    /\ arc.pc = "built" /\ arc.edit.kind = "none"
    /\ \E magic \in ForgedMagics, version \in ForgedVersions :
        /\ magic \o <<version>> # SubSeq(arc.data, 1, 6)
        /\ arc' = [arc EXCEPT
                     !.data = magic \o <<version>> \o SubSeq(arc.data, 7, Len(arc.data)),
                     !.edit = [kind |-> "header", pos |-> 0]]
    /\ UNCHANGED <<db, oidCounter, rst, bk, codec, seen>>

\* parseArchive(data, W2)
ArcParse ==
    /\ arc.pc = "built"
    /\ \E W2 \in Passwords :
        arc' = [arc EXCEPT !.pc = "parsed", !.W2 = W2,
                           !.res = parseArchive(Buf(arc.data), W2)]
    /\ UNCHANGED <<db, oidCounter, rst, bk, codec, seen>>

NextArchive == ArcBuild \/ ArcChangeByte \/ ArcTruncate \/ ArcReplaceHeader \/ ArcParse

SpecArchive == InitArchive /\ [][NextArchive]_vars

----------------------------------------------------------------------------
(* insertRestoredData on decoded payloads: the call has read and parsed an *)
(* archive and holds its payload; the payloads are all those with at most  *)
(* MaxPayloadEntities entities whose ids are among the first MaxOldId       *)
(* ObjectIDs and whose references are any of these, the nil id, or absent   *)

MaxOldId == 2

MaxPayloadEntities == 3

OldIds == {Hex(i) : i \in 1..MaxOldId}

RefIds == {Hex(i) : i \in 0..MaxOldId}

OptRefs == {Nil} \cup {Ptr(x) : x \in RefIds}

DiagramChoices == {MkDiagram(id, parent, <<100>>, Nil) : id \in OldIds, parent \in OptRefs}

NodeChoices == {MkNode(id, diagram, <<>>) : id \in OldIds, diagram \in RefIds}

VaultChoices == {MkVault(Hex(MaxOldId), node, <<>>, Nil) : node \in RefIds}

NoteChoices ==
    {MkNote(id, parent, type, <<102>>, Nil) :
        id \in OldIds, parent \in OptRefs, type \in {TypeFolder, TypeNote}}

RestorePayload(ds, ns, vs, ts) ==
    [Version   |-> BackupVersion,
     CreatedAt |-> [wall |-> 7, mono |-> FALSE],
     Project   |-> MkProject(Hex(1), <<80>>),
     Member    |-> MkMember(2, <<107>>),
     Diagrams  |-> ds, Nodes |-> ns, Vaults |-> vs, Notes |-> ts]

\* the user who restores, and the last ObjectID in use before the call
RestoringUser == MaxOldId + 1

\* the original project is still in storage while its backup is restored
OriginalDB ==
    [projects |-> <<[ID |-> 1, Name |-> <<80>>, Description |-> <<80>>,
                     KeyEpoch |-> <<49>>, CreatedAt |-> ZeroTime, UpdatedAt |-> ZeroTime]>>,
     members  |-> <<>>,
     diagrams |-> <<restoredDiagram(MkDiagram(Hex(2), Nil, <<100>>, Nil),
                                    Hex(2) :> 2, 1)>>,
     nodes    |-> <<restoredNode(MkNode(Hex(2), Hex(2), <<>>), Hex(2) :> 2)>>,
     vaults   |-> <<>>,
     notes    |-> <<restoredNote(MkNote(Hex(2), Nil, TypeFolder, <<102>>, Nil),
                                 Hex(2) :> 2, 1)>>]

InitRestore ==
    /\ \E ds \in SeqUpTo(DiagramChoices, MaxPayloadEntities) :
       \E ns \in SeqUpTo(NodeChoices, MaxPayloadEntities - Len(ds)) :
       \E vs \in SeqUpTo(VaultChoices, MaxPayloadEntities - Len(ds) - Len(ns)) :
       \E ts \in SeqUpTo(NoteChoices, MaxPayloadEntities - Len(ds) - Len(ns) - Len(vs)) :
          rst = [r \in Restorers |->
                   IF r = 1
                   THEN [RstIdle EXCEPT !.pc = "insert", !.userID = RestoringUser,
                                        !.payload = Ptr(RestorePayload(ds, ns, vs, ts))]
                   ELSE RstIdle]
    /\ db = OriginalDB
    /\ oidCounter = RestoringUser
    /\ bk = [b \in Backupers |-> BkIdle]
    /\ arc = ArcIdle
    /\ codec = CodecIdle /\ seen = {}

NextRestore == \E r \in Restorers : insertRestoredData(r)

SpecRestore == InitRestore /\ [][NextRestore]_vars

----------------------------------------------------------------------------
(* Two RestoreBackup calls whose insert steps interleave: each call has
   parsed its archive and is about to run insertRestoredData.  The two
   payloads are the same or different, the two users too. *)

\* a valid graph, a note tree under a diagram, and a node whose diagram is
\* not in the payload
ConcurrentPayloads ==
    {RestorePayload(<<MkDiagram(Hex(2), Nil, <<100>>, Nil)>>,
                    <<MkNode(Hex(3), Hex(2), <<>>)>>,
                    <<MkVault(Hex(4), Hex(3), <<>>, Nil)>>, <<>>),
     RestorePayload(<<MkDiagram(Hex(2), Nil, <<100>>, Nil)>>, <<>>, <<>>,
                    <<MkNote(Hex(5), Nil, TypeFolder, <<102>>, Nil),
                      MkNote(Hex(6), Ptr(Hex(5)), TypeNote, <<102>>, Nil)>>),
     RestorePayload(<<>>, <<MkNode(Hex(3), Hex(2), <<>>)>>, <<>>, <<>>)}

OtherUser == RestoringUser + 1

InitConcurrent ==
    /\ \E p1 \in ConcurrentPayloads, p2 \in ConcurrentPayloads,
          u2 \in {RestoringUser, OtherUser} :
          rst = [r \in Restorers |->
                   [RstIdle EXCEPT !.pc = "insert",
                                   !.userID = IF r = 1 THEN RestoringUser ELSE u2,
                                   !.payload = Ptr(IF r = 1 THEN p1 ELSE p2)]]
    /\ db = OriginalDB
    /\ oidCounter = OtherUser
    /\ bk = [b \in Backupers |-> BkIdle]
    /\ arc = ArcIdle
    /\ codec = CodecIdle /\ seen = {}

NextConcurrent == \E r \in Restorers : insertRestoredData(r)

SpecConcurrent == InitConcurrent /\ [][NextConcurrent]_vars

----------------------------------------------------------------------------
(* One insertRestoredData call on a payload with a chain of three diagrams
   and a folder with a note, in every order of the two lists, or on a
   payload in which entities share an id: the project, a diagram, a node,
   two vaults and a note; two diagrams; two nodes; two notes. *)

Orderings(n) == {f \in [1..n -> 1..n] : \A i, j \in 1..n : f[i] = f[j] => i = j}

ChainDiagrams ==
    <<MkDiagram(Hex(2), Nil, <<100>>, Nil),
      MkDiagram(Hex(3), Ptr(Hex(2)), <<101>>, Nil),
      MkDiagram(Hex(4), Ptr(Hex(3)), <<102>>, Nil)>>

ChainNotes ==
    <<MkNote(Hex(7), Nil, TypeFolder, <<102>>, Nil),
      MkNote(Hex(8), Ptr(Hex(7)), TypeNote, <<110>>, Nil)>>

OrderedPayloads ==
    {RestorePayload([i \in 1..3 |-> ChainDiagrams[f[i]]],
                    <<MkNode(Hex(5), Hex(3), <<114>>)>>,
                    <<MkVault(Hex(6), Hex(5), <<118>>, Nil)>>,
                    [i \in 1..2 |-> ChainNotes[g[i]]]) :
        f \in Orderings(3), g \in Orderings(2)}

CollidingPayloads ==
    {RestorePayload(<<MkDiagram(Hex(1), Nil, <<100>>, Nil)>>,
                    <<MkNode(Hex(1), Hex(1), <<114>>)>>,
                    <<MkVault(Hex(1), Hex(1), <<118>>, Nil),
                      MkVault(Hex(1), Hex(1), <<119>>, Nil)>>,
                    <<MkNote(Hex(1), Nil, TypeNote, <<110>>, Nil)>>),
     RestorePayload(<<MkDiagram(Hex(2), Nil, <<100>>, Nil),
                      MkDiagram(Hex(2), Nil, <<101>>, Nil)>>, <<>>, <<>>, <<>>),
     RestorePayload(<<MkDiagram(Hex(2), Nil, <<100>>, Nil)>>,
                    <<MkNode(Hex(5), Hex(2), <<114>>), MkNode(Hex(5), Hex(2), <<115>>)>>,
                    <<>>, <<>>),
     RestorePayload(<<>>, <<>>, <<>>,
                    <<MkNote(Hex(7), Nil, TypeNote, <<110>>, Nil),
                      MkNote(Hex(7), Nil, TypeNote, <<111>>, Nil)>>)}

InitOrder ==
    /\ \E p \in OrderedPayloads \cup CollidingPayloads :
          rst = [r \in Restorers |->
                   IF r = 1
                   THEN [RstIdle EXCEPT !.pc = "insert", !.userID = RestoringUser,
                                        !.payload = Ptr(p)]
                   ELSE RstIdle]
    /\ db = OriginalDB
    /\ oidCounter = RestoringUser
    /\ bk = [b \in Backupers |-> BkIdle]
    /\ arc = ArcIdle
    /\ codec = CodecIdle /\ seen = {}

NextOrder == insertRestoredData(1)

SpecOrder == InitOrder /\ [][NextOrder]_vars

----------------------------------------------------------------------------
(* The service: backups of a stored project, one after the other, and one *)
(* restore of what a backup returned or of a stream from elsewhere         *)

\* a member of the stored project without "manage_project", and a user who
\* is no member of it
EditorUser == RestoringUser + 1

StrangerUser == RestoringUser + 2

Users == {RestoringUser, EditorUser, StrangerUser}

StoredMember(userID, role) ==
    [ID |-> NilObjectID, ProjectID |-> 1, UserID |-> userID, Role |-> role,
     Permissions |-> RolePresets[role], PublicKey |-> <<80>>,
     EncryptedPrivateKey |-> <<107>>, Keyrings |-> <<MkKeyring(<<49>>, <<107>>)>>]

\* project 1 ("My /P") with its owner and an editor, a diagram with a node
\* and the node's vault, and a folder with a note in it
StoredDB ==
    [projects |-> <<[ID |-> 1, Name |-> <<77, 121, 32, 47, 80>>,
                     Description |-> <<>>, KeyEpoch |-> <<49>>,
                     CreatedAt |-> ZeroTime, UpdatedAt |-> ZeroTime]>>,
     members  |-> <<[StoredMember(RestoringUser, "owner") EXCEPT !.ID = 10],
                    [StoredMember(EditorUser, "editor") EXCEPT !.ID = 11]>>,
     diagrams |-> <<restoredDiagram(MkDiagram(Hex(2), Nil, <<100>>, Ptr(<<>>)),
                                    Hex(2) :> 2, 1)>>,
     nodes    |-> <<restoredNode(MkNode(Hex(6), Hex(2), <<114>>),
                                 (Hex(2) :> 2) @@ (Hex(6) :> 6))>>,
     vaults   |-> <<[restoredVault(MkVault(Hex(7), Hex(6), <<118>>, Nil),
                                   Hex(6) :> 6, 1) EXCEPT !.ID = 7]>>,
     notes    |-> <<restoredNote(MkNote(Hex(9), Ptr(Hex(8)), TypeNote, <<110>>, Nil),
                                 (Hex(8) :> 8) @@ (Hex(9) :> 9), 1),
                    restoredNote(MkNote(Hex(8), Nil, TypeFolder, <<102>>, Nil),
                                 (Hex(8) :> 8) @@ (Hex(9) :> 9), 1)>>]

\* the largest ObjectID in storage
LastObjectID(d) ==
    LET ids == UNION {IDsOf(d[c]) : c \in DOMAIN d}
    IN  CHOOSE x \in ids : \A y \in ids : y <= x

\* an archive that a sender made who knows the format and a password: the
\* header, and bytes of the sender's choice sealed under the password
CraftedArchive(plaintext, password) ==
    LET salt  == [i \in 1..SaltSize |-> 0]
        nonce == [i \in 1..NonceSize |-> 0]
        key   == DeriveBackupKey(password, BackupPepper, salt, toCryptoParams)
    IN  BackupMagic \o <<BackupVersion>> \o nonce \o salt
        \o Encrypt(plaintext, key, nonce).ciphertext

\* streams that no backup produced: an empty one, two archives that seal
\* bytes that are no zstd frame and a zstd frame that holds no JSON
\* document, one that breaks off with
\* a read error, and long ones (up to the size limit, one byte above it,
\* and beyond) that begin like no archive or like an archive of version 2,
\* some of which end in a read error
ForgedStreams ==
    {[bytes |-> <<>>, more |-> 0, fail |-> FALSE],
     [bytes |-> CraftedArchive(<<1, 2, 3>>, <<112, 119>>), more |-> 0, fail |-> FALSE],
     [bytes |-> CraftedArchive(Compress(<<123>>, FALSE).out, <<112, 119>>),
      more |-> 0, fail |-> FALSE],
     [bytes |-> BackupMagic, more |-> 0, fail |-> TRUE],
     [bytes |-> <<0>>, more |-> MaxBackupSize - 1, fail |-> FALSE],
     [bytes |-> <<0>>, more |-> MaxBackupSize, fail |-> FALSE],
     [bytes |-> BackupMagic \o <<2>>, more |-> MaxBackupSize - 5, fail |-> TRUE],
     [bytes |-> BackupMagic \o <<2>>, more |-> MaxBackupSize, fail |-> FALSE]}

\* the archives that backups have returned so far
ReturnedArchives ==
    {[bytes |-> bk[b].archive[1], more |-> 0, fail |-> FALSE] :
        b \in {c \in Backupers : bk[c].pc = "done" /\ bk[c].archive # Nil}}

\* a user asks for a backup of the stored project
StartBackup(b) ==
    /\ bk[b].pc = "off"
    /\ \A c \in Backupers : (c < b => bk[c].pc = "done") /\ (c > b => bk[c].pc = "off")
    /\ \A r \in Restorers : rst[r].pc = "off"
    /\ \E u \in Users, W \in Passwords :
        bk' = [bk EXCEPT ![b] = [BkIdle EXCEPT !.pc = "start", !.projectID = 1,
                                               !.userID = u, !.password = W]]
    /\ UNCHANGED <<db, oidCounter, rst, arc, codec, seen>>

\* a user uploads a stream to restore
StartRestore(r) ==
    /\ rst[r].pc = "off"
    /\ \A b \in Backupers : bk[b].pc \in {"off", "done"}
    /\ \E u \in Users, W \in Passwords, st \in ForgedStreams \cup ReturnedArchives :
        rst' = [rst EXCEPT ![r] = [RstIdle EXCEPT !.pc = "start", !.userID = u,
                                                  !.password = W, !.stream = st]]
    /\ UNCHANGED <<db, oidCounter, bk, arc, codec, seen>>

Init ==
    /\ db = StoredDB
    /\ oidCounter = LastObjectID(StoredDB)
    /\ rst = [r \in Restorers |-> RstIdle]
    /\ bk = [b \in Backupers |-> BkIdle]
    /\ arc = ArcIdle
    /\ codec = CodecIdle /\ seen = {}

Next ==
    \/ \E b \in Backupers :
          StartBackup(b) \/ CreateBackup(b) \/ collectProjectData(b) \/ BuildBackup(b)
    \/ StartRestore(1) \/ RestoreBackup(1) \/ insertRestoredData(1)

Spec == Init /\ [][Next]_vars

----------------------------------------------------------------------------
(* One CreateBackup call on storage that holds more than the project: the
   stored project alone, the project without a diagram next to the
   diagram and node of another project, and the project with a second
   diagram next to the entities of another project. *)

OtherProject == 2 * LastObjectID(StoredDB)

ForeignDiagram == [StoredDB.diagrams[1] EXCEPT !.ID = OtherProject + 1,
                                               !.ProjectID = OtherProject]

ForeignNode == [StoredDB.nodes[1] EXCEPT !.ID = OtherProject + 2,
                                         !.DiagramID = OtherProject + 1]

ForeignVault == [StoredDB.vaults[1] EXCEPT !.ID = OtherProject + 3,
                                           !.ProjectId = OtherProject,
                                           !.NodeId = OtherProject + 2]

ForeignNote == [StoredDB.notes[2] EXCEPT !.ID = OtherProject + 4,
                                         !.ProjectID = OtherProject]

NoDiagramDB ==
    [StoredDB EXCEPT !.diagrams = <<ForeignDiagram>>, !.nodes = <<ForeignNode>>]

SharedDB ==
    [StoredDB EXCEPT
       !.diagrams = <<ForeignDiagram, StoredDB.diagrams[1],
                      [StoredDB.diagrams[1] EXCEPT
                          !.ID = 3, !.ParentDiagramID = Ptr(StoredDB.diagrams[1].ID)]>>,
       !.nodes    = <<StoredDB.nodes[1], ForeignNode,
                      [StoredDB.nodes[1] EXCEPT !.ID = 5, !.DiagramID = 3]>>,
       !.vaults   = <<ForeignVault, StoredDB.vaults[1]>>,
       !.notes    = <<StoredDB.notes[1], ForeignNote, StoredDB.notes[2]>>]

CollectDBs == {StoredDB, NoDiagramDB, SharedDB}

InitCollect ==
    /\ db \in CollectDBs
    /\ oidCounter = OtherProject + 4
    /\ rst = [r \in Restorers |-> RstIdle]
    /\ \E u \in Users, W \in Passwords :
          bk = [b \in Backupers |->
                  IF b = 1 THEN [BkIdle EXCEPT !.pc = "start", !.projectID = 1,
                                               !.userID = u, !.password = W]
                  ELSE BkIdle]
    /\ arc = ArcIdle
    /\ codec = CodecIdle /\ seen = {}

NextCollect == CreateBackup(1) \/ collectProjectData(1) \/ BuildBackup(1)

SpecCollect == InitCollect /\ [][NextCollect]_vars

----------------------------------------------------------------------------
(* internal/core/service: NodeService.DeleteNode and
   DiagramService.DeleteDiagram, and a CreateBackup call of the owner
   while members delete nodes and diagrams of the project. *)

PermissionEditDiagram == "edit_diagram"

ErrCodeDiagramNotFound == "DIAGRAM_NOT_FOUND"

ErrNodeAccessDenied == "ErrNodeAccessDenied"

ErrDiagramAccessDenied == "ErrDiagramAccessDenied"

\* model.DeleteMany(ctx, bson.M{field: value}): [err, coll]
DeleteMany(coll, field, value, storageOK) ==
    IF ~storageOK THEN [err |-> ErrStorage, coll |-> coll]
    ELSE [err |-> "", coll |-> Pick(coll, DOMAIN coll \ Matching(coll, field, {value}))]

\* nodeRepository.Delete: [err, db]
DeleteNodeByID(d, nodeID, storageOK) ==
    LET del == DeleteMany(d.nodes, "ID", nodeID, storageOK)
    IN  [err |-> del.err, db |-> [d EXCEPT !.nodes = del.coll]]

\* NodeService.verifyDiagramPermission: "" for nil, or the error
verifyDiagramPermission(d, diagramID, userID, requiredPermission, findOK, memberOK) ==
    LET diagram == FindByID(d.diagrams, diagramID, findOK)
        member  == FindByProjectAndUser(d.members, diagram.doc[1].ProjectID, userID,
                                        memberOK)
    IN  IF diagram.err = ErrNoDocuments THEN ErrCodeDiagramNotFound
        ELSE IF diagram.err # "" THEN diagram.err
        ELSE IF member.err = ErrNoDocuments THEN ErrNodeAccessDenied
        ELSE IF member.err # "" THEN member.err
        ELSE IF \/ requiredPermission \in Range(member.doc[1].Permissions)
                \/ member.doc[1].Role = "owner"
        THEN ""
        ELSE ErrNodeAccessDenied

\* DiagramService.hasPermission: "" for nil, or the error
hasPermission(members, projectID, userID, permission, storageOK) ==
    LET member == FindByProjectAndUser(members, projectID, userID, storageOK)
    IN  IF member.err = ErrNoDocuments THEN ErrDiagramAccessDenied
        ELSE IF member.err # "" THEN member.err
        ELSE IF permission \in Range(member.doc[1].Permissions) THEN ""
        ELSE ErrInsufficientPermission

\* the storage states that the CreateBackup calls in progress have passed
Observed(d) ==
    IF \E b \in Backupers : bk[b].pc \notin {"off", "done"} THEN seen \cup {d} ELSE seen

\* NodeService.DeleteNode
DeleteNode(nodeID, userID) ==
    /\ \E findOK \in BOOLEAN, diagramOK \in BOOLEAN, memberOK \in BOOLEAN,
          deleteOK \in BOOLEAN :
        LET node == FindByID(db.nodes, nodeID, findOK)
            perm == verifyDiagramPermission(db, node.doc[1].DiagramID, userID,
                                            PermissionEditDiagram, diagramOK, memberOK)
        IN  db' = IF node.err # "" THEN db
                  ELSE IF perm # "" THEN db
                  ELSE DeleteNodeByID(db, nodeID, deleteOK).db
    /\ seen' = Observed(db')
    /\ UNCHANGED <<oidCounter, rst, bk, arc, codec>>

\* DiagramService.DeleteDiagram
DeleteDiagram(diagramID, userID) ==
    /\ \E findOK \in BOOLEAN, memberOK \in BOOLEAN, nodesOK \in BOOLEAN,
          deleteOK \in BOOLEAN :
        LET diagram == FindByID(db.diagrams, diagramID, findOK)
            perm    == hasPermission(db.members, diagram.doc[1].ProjectID, userID,
                                     PermissionEditDiagram, memberOK)
            nodes   == DeleteMany(db.nodes, "DiagramID", diagramID, nodesOK)
            gone    == DeleteMany(db.diagrams, "ID", diagramID, deleteOK)
        IN  db' = IF diagram.err # "" THEN db
                  ELSE IF perm # "" THEN db
                  ELSE IF nodes.err # "" THEN db
                  ELSE [db EXCEPT !.nodes = nodes.coll, !.diagrams = gone.coll]
    /\ seen' = Observed(db')
    /\ UNCHANGED <<oidCounter, rst, bk, arc, codec>>

InitLive ==
    /\ db = SharedDB
    /\ oidCounter = OtherProject + 4
    /\ rst = [r \in Restorers |-> RstIdle]
    /\ bk = [b \in Backupers |->
               IF b = 1 THEN [BkIdle EXCEPT !.pc = "start", !.projectID = 1,
                                            !.userID = RestoringUser,
                                            !.password = <<112, 119>>]
               ELSE BkIdle]
    /\ arc = ArcIdle
    /\ codec = CodecIdle /\ seen = {SharedDB}

NextLive ==
    \/ CreateBackup(1) \/ collectProjectData(1) \/ BuildBackup(1)
    \/ \E u \in Users :
          \/ \E nodeID \in IDsOf(SharedDB.nodes) : DeleteNode(nodeID, u)
          \/ \E diagramID \in IDsOf(SharedDB.diagrams) : DeleteDiagram(diagramID, u)

SpecLive == InitLive /\ [][NextLive]_vars

----------------------------------------------------------------------------
(* One RestoreBackup call on an archive that was sealed under a known
   password: the archive as it was built or with one byte of its nonce,
   salt or ciphertext changed, and the right or another password. *)

SealedPassword == <<112, 119, 49>>

SealedArchive ==
    LET draw == CHOOSE d \in RandomDraws : d.nonce[1] # 0
    IN  buildArchive(RestorePayload(<<>>, <<>>, <<>>, <<>>), SealedPassword,
                     draw.salt, draw.nonce).archive

\* the positions behind magic and version, and 0 for no change
TamperPositions == {0} \cup ((Len(BackupMagic) + 2)..Len(SealedArchive))

InitDecrypt ==
    /\ db = StoredDB
    /\ oidCounter = LastObjectID(StoredDB)
    /\ \E u \in Users, W \in Passwords, pos \in TamperPositions :
          rst = [r \in Restorers |->
                   IF r = 1
                   THEN [RstIdle EXCEPT
                           !.pc = "start", !.userID = u, !.password = W,
                           !.stream.bytes =
                               IF pos = 0 THEN SealedArchive
                               ELSE [SealedArchive EXCEPT ![pos] = (@ + 1) % 256]]
                   ELSE RstIdle]
    /\ bk = [b \in Backupers |-> BkIdle]
    /\ arc = ArcIdle
    /\ codec = CodecIdle /\ seen = {}

NextDecrypt == RestoreBackup(1) \/ CreateProject(1) \/ CreateMember(1)

SpecDecrypt == InitDecrypt /\ [][NextDecrypt]_vars

----------------------------------------------------------------------------
(* One RestoreBackup call on an uploaded stream: the forged streams, the
   sealed archive whole, cut short, with another magic or version or
   ending in a read error, and streams at and beyond the size limit that
   end in a read error. *)

UploadStreams ==
    ForgedStreams
    \cup {[bytes |-> SealedArchive, more |-> 0, fail |-> FALSE],
          [bytes |-> SealedArchive, more |-> 0, fail |-> TRUE],
          [bytes |-> SubSeq(SealedArchive, 1, archiveHeaderSize - 1), more |-> 0,
           fail |-> FALSE],
          [bytes |-> [SealedArchive EXCEPT ![1] = 0], more |-> 0, fail |-> FALSE],
          [bytes |-> [SealedArchive EXCEPT ![Len(BackupMagic) + 1] = 2], more |-> 0,
           fail |-> FALSE],
          [bytes |-> <<0>>, more |-> MaxBackupSize - 1, fail |-> TRUE],
          [bytes |-> <<0>>, more |-> 2 * MaxBackupSize, fail |-> TRUE]}

InitUpload ==
    /\ db = StoredDB
    /\ oidCounter = LastObjectID(StoredDB)
    /\ \E u \in Users, W \in Passwords, st \in UploadStreams :
          rst = [r \in Restorers |->
                   IF r = 1
                   THEN [RstIdle EXCEPT !.pc = "start", !.userID = u, !.password = W,
                                        !.stream = st]
                   ELSE RstIdle]
    /\ bk = [b \in Backupers |-> BkIdle]
    /\ arc = ArcIdle
    /\ codec = CodecIdle /\ seen = {}

NextUpload == RestoreBackup(1) \/ CreateProject(1) \/ CreateMember(1)

SpecUpload == InitUpload /\ [][NextUpload]_vars

----------------------------------------------------------------------------
(* sanitizeFilename applied to project names: all names of up to
   MaxNameLen characters over the characters at and next to the ends of
   the kept ranges, a space, a slash and a character outside ASCII, and
   the names "My Project! #1" and "???". *)

MaxNameLen == 2

NameChars == {32, 45, 47, 48, 57, 58, 64, 65, 90, 91, 95, 96, 97, 122, 123, 233}

ProjectNames ==
    SeqUpTo(NameChars, MaxNameLen)
    \cup {<<77, 121, 32, 80, 114, 111, 106, 101, 99, 116, 33, 32, 35, 49>>,
          <<63, 63, 63>>}

InitFilename ==
    /\ db = StoredDB
    /\ oidCounter = LastObjectID(StoredDB)
    /\ rst = [r \in Restorers |-> RstIdle]
    /\ \E name \in ProjectNames :
          bk = [b \in Backupers |->
                  IF b = 1
                  THEN [BkIdle EXCEPT !.pc = "name", !.projectID = 1,
                          !.project = Ptr([StoredDB.projects[1] EXCEPT !.Name = name])]
                  ELSE BkIdle]
    /\ arc = ArcIdle
    /\ codec = CodecIdle /\ seen = {}

\* sanitizeFilename(payload.Project.Name)
SanitizeProjectName(b) ==
    /\ bk[b].pc = "name"
    /\ bk' = [bk EXCEPT ![b].pc = "named",
                        ![b].filename = Ptr(sanitizeFilename(bk[b].project[1].Name))]
    /\ UNCHANGED <<db, oidCounter, rst, arc, codec, seen>>

NextFilename == SanitizeProjectName(1)

SpecFilename == InitFilename /\ [][NextFilename]_vars

----------------------------------------------------------------------------
(* Concurrent calls of compression.Compress and compression.Decompress:
   MaxCallers goroutines, each making up to MaxCalls calls. *)

CodecData == <<1, 2>>

OnceOf(kind) == IF kind = "compress" THEN "encoderOnce" ELSE "decoderOnce"

InstanceOf(kind) == IF kind = "compress" THEN "encoder" ELSE "decoder"

InitErrOf(kind) == IF kind = "compress" THEN "initEncErr" ELSE "initDecErr"

BuiltOf(kind) == IF kind = "compress" THEN "enc" ELSE "dec"

\* a Do that looks at the done flag only, outside the mutex
OnceEnterUnlocked(once) == IF once = "done" THEN "skip" ELSE "run"

\* sync.Once.Do: the first caller runs f, a caller that arrives while f
\* runs waits for the mutex, a caller that arrives afterwards returns
OnceEnter(once) ==
    CASE once = "new"     -> "run"
      [] once = "running" -> "wait"
      [] OTHER            -> "skip"

\* a goroutine calls Compress or Decompress
StartCall(c) ==
    /\ codec.calls[c].pc \in {"off", "done"}
    /\ codec.calls[c].n < MaxCalls
    /\ \E kind \in {"compress", "decompress"} :
          codec' = [codec EXCEPT !.calls[c] =
                      [CallIdle EXCEPT !.pc = "get", !.kind = kind,
                                       !.n = codec.calls[c].n + 1]]
    /\ UNCHANGED <<db, oidCounter, rst, bk, arc, seen>>

\* getEncoder / getDecoder: encoderOnce.Do(...), decoderOnce.Do(...)
onceDo(c) ==
    /\ codec.calls[c].pc = "get"
    /\ LET kind == codec.calls[c].kind
           how  == OnceEnter(codec[OnceOf(kind)])
       IN  /\ how # "wait"
           /\ codec' = IF how = "run"
                       THEN [codec EXCEPT ![OnceOf(kind)] = "running",
                                          !.calls[c].pc = "init"]
                       ELSE [codec EXCEPT !.calls[c].pc = "got"]
    /\ UNCHANGED <<db, oidCounter, rst, bk, arc, seen>>

\* the function passed to Do: zstd.NewWriter / zstd.NewReader, whose
\* results are stored in the package variables
newCodec(c) ==
    /\ codec.calls[c].pc = "init"
    /\ \E ok \in BOOLEAN :
        LET kind == codec.calls[c].kind
            id   == codec.built[BuiltOf(kind)] + 1
        IN  codec' = [codec EXCEPT
                        ![InstanceOf(kind)] = IF ok THEN Ptr(id) ELSE Nil,
                        ![InitErrOf(kind)]  = IF ok THEN "" ELSE "zstd: invalid option",
                        !.built[BuiltOf(kind)] = id,
                        ![OnceOf(kind)] = "done",
                        !.calls[c].pc = "got"]
    /\ UNCHANGED <<db, oidCounter, rst, bk, arc, seen>>

\* the rest of Compress / Decompress, with what getEncoder / getDecoder
\* returned
finishCall(c) ==
    /\ codec.calls[c].pc = "got"
    /\ LET kind     == codec.calls[c].kind
           instance == codec[InstanceOf(kind)]
           initErr  == codec[InitErrOf(kind)]
           r        == IF kind = "compress" THEN Compress(CodecData, initErr # "")
                       ELSE Decompress(EncodeAll(CodecData), initErr # "")
       IN  codec' = [codec EXCEPT
                       !.calls[c].pc = "done",
                       !.calls[c].used = IF r.err = "" THEN instance[1] ELSE 0,
                       !.calls[c].err = r.err,
                       !.calls[c].cause = initErr,
                       !.calls[c].out = r.out]
    /\ UNCHANGED <<db, oidCounter, rst, bk, arc, seen>>

InitCodec ==
    /\ db = EmptyDB /\ oidCounter = 0
    /\ rst = [r \in Restorers |-> RstIdle]
    /\ bk = [b \in Backupers |-> BkIdle]
    /\ arc = ArcIdle
    /\ codec = CodecIdle /\ seen = {}

NextCodec == \E c \in Callers : StartCall(c) \/ onceDo(c) \/ newCodec(c) \/ finishCall(c)

SpecCodec == InitCodec /\ [][NextCodec]_vars

----------------------------------------------------------------------------
(* Properties of the restored graph *)

RestoreSucceeded(r) == rst[r].pc = "done" /\ rst[r].err = ""

IdsIn(list) == {list[i].ID : i \in DOMAIN list}

\* the references of a payload stay inside the payload
InternallyValid(p) ==
    /\ \A i \in DOMAIN p.Diagrams :
          p.Diagrams[i].ParentDiagramID # Nil
             => p.Diagrams[i].ParentDiagramID[1] \in IdsIn(p.Diagrams)
    /\ \A i \in DOMAIN p.Nodes : p.Nodes[i].DiagramID \in IdsIn(p.Diagrams)
    /\ \A i \in DOMAIN p.Vaults : p.Vaults[i].NodeID \in IdsIn(p.Nodes)
    /\ \A i \in DOMAIN p.Notes :
          p.Notes[i].ParentID # Nil => p.Notes[i].ParentID[1] \in IdsIn(p.Notes)

\* the new ids of the restored entities that came from the payload entities
\* of `list` with id x (out is the list of the restored entities, in
\* payload order)
NewIdsOf(list, out, x) == {out[j].ID : j \in {k \in DOMAIN list : list[k].ID = x}}

\* restored(d).parent = m(d.parent), and nil for a root
ParentPreserved(list, out, parentField) ==
    \A i \in DOMAIN list :
        IF list[i][parentField] = Nil THEN out[i][parentField] = Nil
        ELSE /\ out[i][parentField] # Nil
             /\ NewIdsOf(list, out, list[i][parentField][1]) = {out[i][parentField][1]}

RelationshipsPreserved(p, out) ==
    /\ ParentPreserved(p.Diagrams, out.diagrams, "ParentDiagramID")
    /\ \A i \in DOMAIN p.Nodes :
          NewIdsOf(p.Diagrams, out.diagrams, p.Nodes[i].DiagramID)
             = {out.nodes[i].DiagramID}
    /\ \A i \in DOMAIN p.Vaults :
          NewIdsOf(p.Nodes, out.nodes, p.Vaults[i].NodeID) = {out.vaults[i].NodeId}
    /\ ParentPreserved(p.Notes, out.notes, "ParentID")

\* C1: relationship preservation.  After a successful restore of a payload
\* whose references are internally valid, every restored diagram with a
\* parent points at the restored parent (a root has none), every restored
\* node at its restored diagram, every restored vault at its restored node
\* and every restored note with a parent at its restored parent.
C1_RelationshipPreservation ==
    \A r \in Restorers :
        (RestoreSucceeded(r) /\ InternallyValid(rst[r].payload[1]))
            => RelationshipsPreserved(rst[r].payload[1], rst[r].out)

InProject(coll, projectID) == {coll[i].ID : i \in {k \in DOMAIN coll : coll[k].ProjectID = projectID}}

FoldersIn(coll, projectID) ==
    {coll[i].ID : i \in {k \in DOMAIN coll :
                           coll[k].ProjectID = projectID /\ coll[k].Type = TypeFolder}}

ReferentialIntegrity(out, projectID) ==
    /\ \A i \in DOMAIN out.diagrams :
          out.diagrams[i].ParentDiagramID # Nil
             => out.diagrams[i].ParentDiagramID[1] \in InProject(db.diagrams, projectID)
    /\ \A i \in DOMAIN out.nodes :
          out.nodes[i].DiagramID \in InProject(db.diagrams, projectID)
    /\ \A i \in DOMAIN out.vaults : out.vaults[i].NodeId \in IdsIn(out.nodes)
    /\ \A i \in DOMAIN out.notes :
          out.notes[i].ParentID # Nil
             => out.notes[i].ParentID[1] \in FoldersIn(db.notes, projectID)

\* C2: referential integrity after restore.  After a successful restore of
\* any payload, every restored diagram with a parent points at a diagram of
\* the restored project, every restored node's diagram and every restored
\* vault's node exist there, and every restored note with a parent points
\* at a restored note of type "folder".
C2_ReferentialIntegrity ==
    \A r \in Restorers :
        RestoreSucceeded(r) => ReferentialIntegrity(rst[r].out, rst[r].newProjectID)

OptIds(opt) == IF opt = Nil THEN {} ELSE {opt[1]}

\* every identifier string that occurs in a payload
PayloadIdentifiers(p) ==
    {p.Project.ID}
    \cup UNION {{p.Diagrams[i].ID} \cup OptIds(p.Diagrams[i].ParentDiagramID)
                  : i \in DOMAIN p.Diagrams}
    \cup UNION {{p.Nodes[i].ID, p.Nodes[i].DiagramID} : i \in DOMAIN p.Nodes}
    \cup UNION {{p.Vaults[i].ID, p.Vaults[i].NodeID} : i \in DOMAIN p.Vaults}
    \cup UNION {{p.Notes[i].ID} \cup OptIds(p.Notes[i].ParentID) : i \in DOMAIN p.Notes}

\* every ObjectID that occurs in the restored graph of a call
RestoredIdentifiers(loc) ==
    {loc.newProjectID, loc.project[1].ID}
    \cup {db.members[i].ProjectID :
            i \in {k \in DOMAIN db.members : db.members[k].ProjectID = loc.newProjectID}}
    \cup UNION {{loc.out.diagrams[i].ID, loc.out.diagrams[i].ProjectID}
                  \cup OptIds(loc.out.diagrams[i].ParentDiagramID)
                  : i \in DOMAIN loc.out.diagrams}
    \cup UNION {{loc.out.nodes[i].ID, loc.out.nodes[i].DiagramID}
                  : i \in DOMAIN loc.out.nodes}
    \cup UNION {{loc.out.vaults[i].ID, loc.out.vaults[i].NodeId,
                 loc.out.vaults[i].ProjectId} : i \in DOMAIN loc.out.vaults}
    \cup UNION {{loc.out.notes[i].ID, loc.out.notes[i].ProjectID}
                  \cup OptIds(loc.out.notes[i].ParentID) : i \in DOMAIN loc.out.notes}

\* C3: full id regeneration.  After a successful restore no identifier of
\* the restored graph, written in hex, is an identifier of the payload.
C3_FullIdRegeneration ==
    \A r \in Restorers :
        RestoreSucceeded(r)
            => {Hex(x) : x \in RestoredIdentifiers(rst[r])}
                  \cap PayloadIdentifiers(rst[r].payload[1]) = {}

----------------------------------------------------------------------------
(* Properties of buildArchive and parseArchive *)

Parsed == arc.pc = "parsed"

\* a time as it is after one pass through its RFC 3339 text: the
\* monotonic clock reading is not part of the text
NormalizeTimestamps(p) == [p EXCEPT !.CreatedAt.mono = FALSE]

\* C4: round trip.  For every payload P and password W,
\* parseArchive(buildArchive(P, W), W) succeeds and returns a payload equal
\* to P up to the formatting of the timestamp.
C4_RoundTrip ==
    (Parsed /\ arc.edit.kind = "none" /\ arc.W2 = arc.W)
        => /\ arc.res.err = ""
           /\ arc.res.payload = Ptr(NormalizeTimestamps(arc.P))

C4_Witness ==
    /\ Parsed /\ arc.edit.kind = "none" /\ arc.W2 = arc.W
    /\ arc.P.CreatedAt.mono
    /\ Len(arc.P.Diagrams) > 0 /\ Len(arc.P.Notes) > 0
    /\ arc.P.Project.Name = <<34, 92>>
    /\ arc.res.err = ""
    /\ arc.res.payload # Nil /\ arc.res.payload[1].Diagrams = arc.P.Diagrams

\* C5: wrong password.  For every payload P and passwords W1 # W2,
\* parseArchive(buildArchive(P, W1), W2) fails with
\* ErrBackupDecryptionFailed and returns no payload.
C5_WrongPassword ==
    (Parsed /\ arc.edit.kind = "none" /\ arc.W2 # arc.W)
        => /\ arc.res.err = ErrBackupDecryptionFailed
           /\ arc.res.payload = Nil

C5_Witness ==
    /\ Parsed /\ arc.edit.kind = "none" /\ arc.W2 # arc.W
    /\ Len(arc.P.Diagrams) > 0
    /\ arc.res.err = ErrBackupDecryptionFailed
    /\ "decrypt" \in Range(arc.res.steps)

\* C6: tamper detection.  For every valid archive and every byte at an
\* offset of 50 or more (the ciphertext region), changing that one byte
\* makes parseArchive with the right password fail with
\* ErrBackupDecryptionFailed.
C6_TamperDetection ==
    (Parsed /\ arc.edit.kind = "byte" /\ arc.edit.pos - 1 >= 50 /\ arc.W2 = arc.W)
        => arc.res.err = ErrBackupDecryptionFailed

C6_Witness ==
    /\ Parsed /\ arc.edit.kind = "byte" /\ arc.W2 = arc.W
    /\ arc.edit.pos - 1 >= 50
    /\ arc.edit.pos <= Len(arc.data) - gcmTagSize
    /\ Len(arc.P.Vaults) > 0
    /\ arc.res.err = ErrBackupDecryptionFailed

\* C7: invalid format.  parseArchive of an input shorter than 50 bytes, and
\* of an input of 50 bytes or more whose first 5 bytes are not "INFBK",
\* fails with ErrBackupInvalidFormat, whatever the version byte, the rest
\* of the bytes and the password are.
C7_FormatInvalid ==
    (Parsed /\ (Len(arc.data) < 50
                  \/ SubSeq(arc.data, 1, 5) # <<73, 78, 70, 66, 75>>))
        => /\ arc.res.err = ErrBackupInvalidFormat
           /\ arc.res.payload = Nil

C7_Witness ==
    /\ Parsed /\ arc.edit.kind = "header"
    /\ Len(arc.data) >= 50
    /\ SubSeq(arc.data, 1, 4) = <<73, 78, 70, 66>> /\ arc.data[5] # 75
    /\ arc.data[6] = BackupVersion
    /\ arc.W2 = arc.W
    /\ arc.res.err = ErrBackupInvalidFormat

\* C8: unsupported version.  parseArchive of an input of at least 50 bytes
\* with the right magic and a version byte other than 1 fails with
\* ErrBackupVersionMismatch for every password and every nonce, salt and
\* ciphertext, and it does so before any key is derived or any decryption
\* is attempted.
C8_VersionUnsupported ==
    (Parsed /\ Len(arc.data) >= 50
            /\ SubSeq(arc.data, 1, 5) = <<73, 78, 70, 66, 75>>
            /\ arc.data[6] # 1)
        => /\ arc.res.err = ErrBackupVersionMismatch
           /\ arc.res.payload = Nil
           /\ "derive" \notin Range(arc.res.steps)
           /\ "decrypt" \notin Range(arc.res.steps)

C8_Witness ==
    /\ Parsed /\ Len(arc.data) > 50 + gcmTagSize
    /\ SubSeq(arc.data, 1, 5) = <<73, 78, 70, 66, 75>>
    /\ arc.data[6] = 2
    /\ arc.W2 = arc.W
    /\ arc.res.err = ErrBackupVersionMismatch
    /\ arc.res.steps = <<"length", "magic", "version">>

----------------------------------------------------------------------------
(* Properties of the service *)

\* C9: size cap ordering.  RestoreBackup on a stream of more than 100 MiB
\* fails with ErrBackupTooLarge, and nothing but the read and the size
\* check happened in that call: no header validation, no key derivation, no
\* decryption and no storage write.
C9_SizeCapOrdering ==
    \A r \in Restorers :
        (rst[r].pc \notin {"off", "start"}
           /\ StreamSize(rst[r].stream) > 100 * 1024 * 1024)
            => /\ rst[r].pc = "done"
               /\ rst[r].err = ErrBackupTooLarge
               /\ rst[r].steps = <<"read", "size">>
               /\ rst[r].project = Nil /\ rst[r].payload = Nil
               /\ \A c \in DOMAIN db : \A i \in DOMAIN db[c] : db[c][i] \in Range(StoredDB[c])

C9_Witness ==
    /\ rst[1].pc = "done"
    /\ rst[1].stream.bytes = BackupMagic \o <<2>>
    /\ StreamSize(rst[1].stream) > MaxBackupSize + 1
    /\ rst[1].err = ErrBackupTooLarge
    /\ bk[1].pc = "done" /\ bk[1].archive # Nil

\* the permissions that the user holds on the project
PermissionsOf(userID, projectID) ==
    UNION {Range(db.members[i].Permissions) :
             i \in {k \in DOMAIN db.members :
                      /\ db.members[k].ProjectID = projectID
                      /\ db.members[k].UserID = userID}}

IsMember(userID, projectID) ==
    \E i \in DOMAIN db.members :
        db.members[i].ProjectID = projectID /\ db.members[i].UserID = userID

\* a finished CreateBackup call of a user without "manage_project"
Unpermitted(b) ==
    /\ bk[b].pc = "done"
    /\ "manage_project" \notin PermissionsOf(bk[b].userID, bk[b].projectID)

GraphReads == {"read project", "read diagrams", "read nodes", "read vaults",
               "read notes"}

NothingReturnedNorCollected(b) ==
    /\ bk[b].err # ""
    /\ bk[b].archive = Nil /\ bk[b].filename = Nil
    /\ Range(bk[b].steps) \cap GraphReads = {}

----------------------------------------------------------------------------
(* Properties of the restore's writes *)

\* the positions of the memberships of a project
MembersOf(projectID) == Matching(db.members, "ProjectID", {projectID})

\* C11: restore ownership.  A successful RestoreBackup by user U, who
\* needs no membership anywhere, leaves the new project with exactly one
\* membership: user U, role "owner", the owner preset (which contains
\* "manage_project"), and the public key, the encrypted private key and
\* all keyrings of the payload's member, unchanged and in the same order.
C11_RestoreOwnership ==
    \A r \in Restorers :
        RestoreSucceeded(r)
            => LET m == rst[r].payload[1].Member
               IN  /\ Cardinality(MembersOf(rst[r].newProjectID)) = 1
                   /\ \A i \in MembersOf(rst[r].newProjectID) :
                        /\ db.members[i].UserID = rst[r].userID
                        /\ db.members[i].Role = "owner"
                        /\ db.members[i].Permissions = RolePresets["owner"]
                        /\ "manage_project" \in Range(db.members[i].Permissions)
                        /\ db.members[i].PublicKey = m.PublicKey
                        /\ db.members[i].EncryptedPrivateKey = m.EncryptedPrivateKey
                        /\ db.members[i].Keyrings = m.Keyrings

C11_Witness ==
    /\ RestoreSucceeded(1)
    /\ Len(rst[1].payload[1].Member.Keyrings) = 2
    /\ rst[1].payload[1].Member.Keyrings[1] # rst[1].payload[1].Member.Keyrings[2]
    /\ Len(rst[1].out.diagrams) > 0
    /\ Matching(db.members, "UserID", {rst[1].userID}) = MembersOf(rst[1].newProjectID)
    /\ Cardinality(MembersOf(rst[1].newProjectID)) = 1

\* the stored documents of the first collection are all kept, in place, in
\* the second
KeptIn(before, after) ==
    /\ Len(after) >= Len(before)
    /\ SubSeq(after, 1, Len(before)) = before

\* C12: restore frame.  In every execution of RestoreBackup, successful or
\* failed, every project, member, diagram, node, vault and note that was
\* stored before a step is stored unchanged after it: the restore only
\* creates documents, it updates and deletes none.
C12_RestoreFrame ==
    [][\A c \in DOMAIN db : KeptIn(db[c], db'[c])]_vars

C12_Witness ==
    /\ rst[1].pc = "done"
    /\ rst[1].err = "inserting restored data: creating note"
    /\ Len(db.diagrams) > Len(StoredDB.diagrams)
    /\ \A c \in DOMAIN db : KeptIn(StoredDB[c], db[c])

\* the ObjectIDs of the graph that a restore has created so far
GraphIds(loc) ==
    (IF loc.newProjectID = NilObjectID THEN {} ELSE {loc.newProjectID})
    \cup IdsIn(loc.out.diagrams) \cup IdsIn(loc.out.nodes)
    \cup IdsIn(loc.out.vaults) \cup IdsIn(loc.out.notes)

\* the ObjectIDs that the entities of that graph refer to
GraphRefs(loc) ==
    UNION {{loc.out.diagrams[i].ProjectID}
                  \cup OptIds(loc.out.diagrams[i].ParentDiagramID)
                  : i \in DOMAIN loc.out.diagrams}
    \cup {loc.out.nodes[i].DiagramID : i \in DOMAIN loc.out.nodes}
    \cup UNION {{loc.out.vaults[i].NodeId, loc.out.vaults[i].ProjectId}
                  : i \in DOMAIN loc.out.vaults}
    \cup UNION {{loc.out.notes[i].ProjectID} \cup OptIds(loc.out.notes[i].ParentID)
                  : i \in DOMAIN loc.out.notes}

\* the _id values that the next Create of a restore sends (the vault and
\* member repositories send none), and the ids stored by anyone else in the
\* collection that the Create writes
PendingIds(loc) ==
    CASE loc.pc = "diagrams" -> {MapGet(loc.idMap, loc.payload[1].Diagrams[loc.i].ID)}
      [] loc.pc = "nodes"    -> {MapGet(loc.idMap, loc.payload[1].Nodes[loc.i].ID)}
      [] loc.pc = "notes"    -> {MapGet(loc.idMap, loc.payload[1].Notes[loc.i].ID)}
      [] OTHER               -> {}

ForeignIds(loc) ==
    CASE loc.pc = "diagrams" -> IDsOf(db.diagrams) \ IdsIn(loc.out.diagrams)
      [] loc.pc = "nodes"    -> IDsOf(db.nodes) \ IdsIn(loc.out.nodes)
      [] loc.pc = "notes"    -> IDsOf(db.notes) \ IdsIn(loc.out.notes)
      [] OTHER               -> {}

\* C13: concurrent restores do not interfere.  In every interleaving of the
\* insert steps of two RestoreBackup calls (same or different payload, same
\* or different user) no Create of one call can be refused because of a
\* document of the other call or of the stored data, so each call succeeds
\* exactly when its own Creates succeed; the two restored graphs share no
\* identifier, and no entity of one graph refers to an entity of the other.
C13_ConcurrentRestores ==
    \A r \in Restorers : \A q \in Restorers \ {r} :
        /\ PendingIds(rst[r]) \cap ForeignIds(rst[r]) = {}
        /\ GraphIds(rst[r]) \cap GraphIds(rst[q]) = {}
        /\ GraphRefs(rst[r]) \cap GraphIds(rst[q]) = {}
        /\ \A i \in MembersOf(rst[r].newProjectID) :
              db.members[i].UserID = rst[r].userID

\* both calls succeeded on the same payload, and their inserts interleaved
C13_Witness ==
    /\ RestoreSucceeded(1) /\ RestoreSucceeded(2)
    /\ rst[1].payload = rst[2].payload
    /\ Len(rst[1].out.nodes) = 1 /\ Len(rst[1].out.vaults) = 1
    /\ rst[1].newProjectID < rst[2].newProjectID
    /\ rst[2].out.diagrams[1].ID < rst[1].out.diagrams[1].ID
    /\ rst[1].out.nodes[1].ID < rst[2].out.nodes[1].ID
    /\ rst[1].out.nodes[1].DiagramID = rst[1].out.diagrams[1].ID
    /\ rst[2].out.nodes[1].DiagramID = rst[2].out.diagrams[1].ID

----------------------------------------------------------------------------
(* Properties of the collection *)

\* the stored entities of a project: its diagrams, the nodes of these
\* diagrams, its vaults and its notes
DiagramsOf(projectID) == {d \in Range(db.diagrams) : d.ProjectID = projectID}

NodesOf(projectID) ==
    {n \in Range(db.nodes) : n.DiagramID \in {d.ID : d \in DiagramsOf(projectID)}}

VaultsOf(projectID) == {v \in Range(db.vaults) : v.ProjectId = projectID}

NotesOf(projectID) == {n \in Range(db.notes) : n.ProjectID = projectID}

\* the payload holds each of these entities once, and nothing else
CollectedExactly(p, projectID) ==
    /\ Range(p.Diagrams) = {toDiagramBackups(<<d>>)[1] : d \in DiagramsOf(projectID)}
    /\ Len(p.Diagrams) = Cardinality(DiagramsOf(projectID))
    /\ Range(p.Nodes) = {toNodeBackups(<<n>>)[1] : n \in NodesOf(projectID)}
    /\ Len(p.Nodes) = Cardinality(NodesOf(projectID))
    /\ Range(p.Vaults) = {toVaultBackups(<<v>>)[1] : v \in VaultsOf(projectID)}
    /\ Len(p.Vaults) = Cardinality(VaultsOf(projectID))
    /\ Range(p.Notes) = {toNoteBackups(<<n>>)[1] : n \in NotesOf(projectID)}
    /\ Len(p.Notes) = Cardinality(NotesOf(projectID))

\* C14: collector all-or-nothing.  A CreateBackup call in which a read
\* (project, member, diagrams, nodes, vaults, notes) failed returns an
\* error and neither archive bytes nor a file name; an archive is only
\* returned with no error, and its payload is the caller's membership and
\* the whole of the project, never a part of it.
C14_CollectorAllOrNothing ==
    \A b \in Backupers :
        /\ bk[b].err # ""
              => bk[b].pc = "done" /\ bk[b].archive = Nil /\ bk[b].filename = Nil
        /\ (bk[b].archive # Nil \/ bk[b].filename # Nil)
              => /\ bk[b].err = "" /\ bk[b].archive # Nil /\ bk[b].filename # Nil
                 /\ bk[b].payload # Nil
                 /\ bk[b].payload[1].Project.ID = Hex(bk[b].projectID)
                 /\ \E m \in Range(db.members) :
                       /\ m.ProjectID = bk[b].projectID /\ m.UserID = bk[b].userID
                       /\ bk[b].payload[1].Member = toMemberBackup(m)
                 /\ CollectedExactly(bk[b].payload[1], bk[b].projectID)

\* the read of the vaults failed after the diagrams and nodes were read
C14_Witness ==
    /\ bk[1].pc = "done"
    /\ bk[1].err = "collecting project data: fetching vaults"
    /\ Len(bk[1].diagrams) = 2 /\ Len(bk[1].nodes) = 2
    /\ bk[1].archive = Nil /\ bk[1].filename = Nil

\* C20: collection completeness.  When all reads succeed (storage does not
\* change during the call), the payload that CreateBackup builds contains
\* exactly the project's diagrams, exactly the nodes whose diagram is one
\* of them, exactly the project's vaults and exactly its notes; when the
\* project has no diagram, the node lookup is skipped and the payload has
\* no nodes.
C20_CollectionCompleteness ==
    \A b \in Backupers :
        bk[b].payload # Nil
            => /\ CollectedExactly(bk[b].payload[1], bk[b].projectID)
               /\ DiagramsOf(bk[b].projectID) = {}
                     => /\ bk[b].payload[1].Nodes = <<>>
                        /\ "read nodes" \notin Range(bk[b].steps)
               /\ DiagramsOf(bk[b].projectID) # {}
                     => "read nodes" \in Range(bk[b].steps)

\* the payload of the project with two diagrams, stored among the entities
\* of another project
C20_Witness ==
    /\ bk[1].pc = "done" /\ bk[1].archive # Nil
    /\ Len(bk[1].payload[1].Diagrams) = 2 /\ Len(bk[1].payload[1].Nodes) = 2
    /\ Len(db.diagrams) = 3 /\ Len(db.nodes) = 3
    /\ Len(bk[1].payload[1].Vaults) = 1 /\ Len(bk[1].payload[1].Notes) = 2

----------------------------------------------------------------------------
(* Properties of the errors *)

\* the errors that wrap the failure of a storage call, or of a read of the
\* uploaded stream
StorageErrors ==
    {ErrStorage, ErrNoDocuments, "fetching member for backup", "reading backup file",
     "collecting project data: fetching project",
     "collecting project data: fetching diagrams",
     "collecting project data: fetching nodes",
     "collecting project data: fetching vaults",
     "collecting project data: fetching notes",
     "inserting restored data: creating project",
     "inserting restored data: creating owner member",
     "inserting restored data: creating diagram",
     "inserting restored data: creating node",
     "inserting restored data: creating vault",
     "inserting restored data: creating note"}

\* the kind of an error of the service
ErrorKind(err) ==
    CASE err \in {ErrProjectAccessDenied, ErrInsufficientPermission} -> "PermissionDenied"
      [] err = ErrBackupTooLarge         -> "SizeExceeded"
      [] err = ErrBackupInvalidFormat    -> "FormatInvalid"
      [] err = ErrBackupVersionMismatch  -> "VersionUnsupported"
      [] err = ErrBackupDecryptionFailed -> "DecryptionFailed"
      [] err \in StorageErrors           -> "StorageError"
      [] OTHER                           -> "none"

ErrorKinds ==
    {"PermissionDenied", "SizeExceeded", "FormatInvalid", "VersionUnsupported",
     "DecryptionFailed", "StorageError"}

CreateSteps ==
    {"create project", "create member", "create diagram", "create node",
     "create vault", "create note"}

\* the number of Create calls that a restore has made, and the number of
\* documents in storage that it created
CreateCalls(loc) == Cardinality({i \in DOMAIN loc.steps : loc.steps[i] \in CreateSteps})

CreatedDocs(loc) ==
    Cardinality(Matching(db.projects, "ID", {loc.newProjectID}))
    + Cardinality(MembersOf(loc.newProjectID))
    + Cardinality(Matching(db.diagrams, "ID", IdsIn(loc.out.diagrams)))
    + Cardinality(Matching(db.nodes, "ID", IdsIn(loc.out.nodes)))
    + Cardinality(Matching(db.vaults, "ID", IdsIn(loc.out.vaults)))
    + Cardinality(Matching(db.notes, "ID", IdsIn(loc.out.notes)))

\* C15: non-atomic restore.  If the k-th Create call of a restore fails,
\* RestoreBackup returns a StorageError and makes no further Create call,
\* and every entity that the first k-1 Create calls inserted is still in
\* storage: nothing is rolled back.
C15_NonAtomicRestore ==
    \A r \in Restorers :
        (rst[r].pc = "done" /\ rst[r].err # "" /\ CreateCalls(rst[r]) > 0)
            => /\ ErrorKind(rst[r].err) = "StorageError"
               /\ rst[r].project = Nil
               /\ ~ENABLED insertRestoredData(r)
               /\ CreatedDocs(rst[r]) = CreateCalls(rst[r]) - 1
               /\ \A c \in DOMAIN rst[r].out :
                     Range(rst[r].out[c]) \subseteq Range(db[c])

\* the Create of the vault failed, after the project, the membership, a
\* diagram and a node were inserted
C15_Witness ==
    /\ rst[1].pc = "done"
    /\ rst[1].err = "inserting restored data: creating vault"
    /\ CreateCalls(rst[1]) = 5
    /\ CreatedDocs(rst[1]) = 4
    /\ Len(rst[1].out.diagrams) = 1 /\ Len(rst[1].out.nodes) = 1
    /\ rst[1].out.nodes[1] \in Range(db.nodes)

\* C16: the error taxonomy is exhaustive.  Every failing CreateBackup or
\* RestoreBackup call returns an error of exactly one of the kinds
\* PermissionDenied, SizeExceeded, FormatInvalid, VersionUnsupported,
\* DecryptionFailed and StorageError, also when the input stream cannot be
\* read and when decompression or JSON decoding fails after decryption.
C16_ExhaustiveTaxonomy ==
    /\ \A b \in Backupers : bk[b].err # "" => ErrorKind(bk[b].err) \in ErrorKinds
    /\ \A r \in Restorers : rst[r].err # "" => ErrorKind(rst[r].err) \in ErrorKinds

\* a finished restore of the sealed archive with another password, and one
\* of the archive with a changed byte and the right password
WrongPasswordRun(loc) ==
    loc.pc = "done" /\ loc.stream.bytes = SealedArchive /\ loc.password # SealedPassword

TamperedRun(loc) ==
    loc.pc = "done" /\ loc.stream.bytes # SealedArchive /\ loc.password = SealedPassword

\* C17: indistinguishable decryption failure.  A RestoreBackup call on an
\* untampered archive with a wrong password and one with the right
\* password on an archive whose ciphertext, nonce or salt was changed (the
\* header being valid) end with the same error value and the same storage
\* state: ErrBackupDecryptionFailed, no project, storage as it was.
C17_IndistinguishableFailure ==
    \A r \in Restorers :
        (WrongPasswordRun(rst[r]) \/ TamperedRun(rst[r]))
            => /\ rst[r].err = ErrBackupDecryptionFailed
               /\ rst[r].project = Nil /\ rst[r].out = NoOut
               /\ rst[r].steps = <<"read", "size", "length", "magic", "version",
                                   "derive", "decrypt">>
               /\ db = StoredDB
               /\ oidCounter = LastObjectID(StoredDB)

\* the salt of the archive was changed, the password is the right one
C17_Witness ==
    /\ TamperedRun(rst[1])
    /\ \E pos \in (7 + NonceSize)..archiveHeaderSize :
          rst[1].stream.bytes[pos] # SealedArchive[pos]
    /\ rst[1].err = ErrBackupDecryptionFailed

----------------------------------------------------------------------------
(* Properties of the archive layout and of the file name *)

\* the ciphertext of a payload under a password, a salt and a nonce
SealedPayload(P, W, salt, nonce) ==
    Encrypt(Compress(Marshal(P), FALSE).out,
            DeriveBackupKey(W, BackupPepper, salt, toCryptoParams), nonce).ciphertext

\* the result of a parse that reads the nonce at offsets 6..17, the salt at
\* 18..49 and the ciphertext from 50 on
ParsedAtOffsets(data, W2) ==
    LET dec == Decrypt(SubSeq(data, 51, Len(data)),
                       DeriveBackupKey(W2, BackupPepper, SubSeq(data, 19, 50),
                                       toCryptoParams),
                       SubSeq(data, 7, 18))
        unz == Decompress(dec.plaintext, FALSE)
        js  == Unmarshal(unz.out)
    IN  IF dec.err # "" THEN [err |-> ErrBackupDecryptionFailed, payload |-> Nil]
        ELSE IF unz.err # "" THEN [err |-> "decompressing backup", payload |-> Nil]
        ELSE IF ~js.ok THEN [err |-> "unmarshaling backup", payload |-> Nil]
        ELSE [err |-> "", payload |-> Ptr(js.payload)]

\* C18: archive layout.  Every archive that buildArchive returns has
\* "INFBK" in bytes 0..4, 1 in byte 5, the 12-byte nonce at offsets 6..17,
\* the 32-byte salt at offsets 18..49 and the ciphertext from offset 50 to
\* the end, so that its length is 50 plus the length of the ciphertext;
\* parseArchive reads nonce, salt and ciphertext from exactly these
\* offsets.
C18_ArchiveLayout ==
    /\ (arc.pc \in {"built", "parsed"} /\ arc.edit.kind = "none")
          => LET ct == SealedPayload(arc.P, arc.W, arc.rand[1].salt, arc.rand[1].nonce)
             IN  /\ SubSeq(arc.data, 1, 5) = <<73, 78, 70, 66, 75>>
                 /\ arc.data[6] = 1
                 /\ Len(arc.rand[1].nonce) = 12
                 /\ SubSeq(arc.data, 7, 18) = arc.rand[1].nonce
                 /\ Len(arc.rand[1].salt) = 32
                 /\ SubSeq(arc.data, 19, 50) = arc.rand[1].salt
                 /\ SubSeq(arc.data, 51, Len(arc.data)) = ct
                 /\ Len(arc.data) = 50 + Len(ct)
    /\ (Parsed /\ "derive" \in Range(arc.res.steps))
          => /\ Len(arc.data) >= 50
             /\ [err |-> arc.res.err, payload |-> arc.res.payload]
                    = ParsedAtOffsets(arc.data, arc.W2)

\* an archive of a payload with a node was built and parsed back
C18_Witness ==
    /\ Parsed /\ arc.edit.kind = "none" /\ arc.W2 = arc.W
    /\ Len(arc.P.Nodes) > 0
    /\ arc.rand[1].nonce[1] # arc.rand[1].salt[1]
    /\ Len(arc.data) > 50 + gcmTagSize
    /\ arc.res.err = ""

\* the characters that a file name keeps
FilenameChars == (97..122) \cup (65..90) \cup (48..57) \cup {45, 95}

\* the name, character by character: kept, replaced by "_" or dropped
RECURSIVE Cleaned(_)
Cleaned(name) ==
    IF name = <<>> THEN <<>>
    ELSE (IF Head(name) \in FilenameChars THEN <<Head(name)>>
          ELSE IF Head(name) = 32 THEN <<95>>
          ELSE <<>>) \o Cleaned(Tail(name))

\* C19: file name sanitization.  For every project name sanitizeFilename
\* returns the name's characters in order, with ASCII letters, digits, "-"
\* and "_" kept, each space replaced by "_" and every other character
\* dropped, and "backup" when nothing remains; the result is never empty
\* and consists of [A-Za-z0-9_-] only; "My Project! #1" gives
\* "My_Project_1" and "???" gives "backup".
C19_FilenameSanitization ==
    \A b \in Backupers :
        bk[b].pc = "named"
            => LET name   == bk[b].project[1].Name
                   result == bk[b].filename[1]
               IN  /\ result = IF Cleaned(name) = <<>>
                               THEN <<98, 97, 99, 107, 117, 112>> ELSE Cleaned(name)
                   /\ result # <<>>
                   /\ Range(result) \subseteq FilenameChars
                   /\ name = <<77, 121, 32, 80, 114, 111, 106, 101, 99, 116, 33, 32, 35, 49>>
                         => result = <<77, 121, 95, 80, 114, 111, 106, 101, 99, 116, 95, 49>>
                   /\ name = <<63, 63, 63>> => result = <<98, 97, 99, 107, 117, 112>>

\* a name of a space and a dropped character
C19_Witness ==
    /\ bk[1].pc = "named"
    /\ bk[1].project[1].Name = <<32, 47>>
    /\ bk[1].filename = Ptr(<<95>>)

----------------------------------------------------------------------------
(* Properties of package compression *)

InitFailed(kind) == codec[OnceOf(kind)] = "done" /\ codec[InitErrOf(kind)] # ""

\* C22: compression singletons.  Under every interleaving of concurrent
\* Compress and Decompress calls the encoder is constructed at most once
\* and the decoder at most once, every call uses that one instance, and
\* once a construction failed every call of that kind returns the same
\* initialization error, and nothing is constructed again.
C22_CompressionSingletons ==
    /\ codec.built.enc <= 1 /\ codec.built.dec <= 1
    /\ \A c \in Callers :
          codec.calls[c].pc = "done"
             => LET kind == codec.calls[c].kind
                IN  /\ codec[OnceOf(kind)] = "done"
                    /\ codec.calls[c].cause = codec[InitErrOf(kind)]
                    /\ ~InitFailed(kind)
                          => /\ codec.calls[c].err = ""
                             /\ codec.calls[c].used = 1
                             /\ codec[InstanceOf(kind)] = Ptr(1)
                             /\ codec.calls[c].out
                                   = IF kind = "compress" THEN EncodeAll(CodecData)
                                     ELSE CodecData
                    /\ InitFailed(kind)
                          => /\ codec.calls[c].err
                                   = IF kind = "compress" THEN "initializing zstd encoder"
                                     ELSE "initializing zstd decoder"
                             /\ codec.calls[c].used = 0
                             /\ codec[InstanceOf(kind)] = Nil

\* the encoder could not be constructed; a second call of the goroutine
\* that tried, and a call of another goroutine, got the same error
C22_Witness ==
    /\ InitFailed("compress") /\ codec.built.enc = 1
    /\ codec.calls[1].pc = "done" /\ codec.calls[1].kind = "compress"
    /\ codec.calls[1].n = 2
    /\ codec.calls[2].pc = "done" /\ codec.calls[2].kind = "compress"
    /\ codec.calls[1].err = "initializing zstd encoder"
    /\ codec.calls[2].cause = codec.calls[1].cause

----------------------------------------------------------------------------
(* Properties of backups of a project that members edit *)

\* C21: payload closure.  In every payload that CreateBackup produced,
\* every vault's node id is the id of a node of the payload and every
\* node's diagram id is the id of a diagram of the payload.
C21_PayloadClosure ==
    \A b \in Backupers :
       bk[b].payload # Nil
          => LET p == bk[b].payload[1]
             IN  /\ \A i \in DOMAIN p.Vaults : p.Vaults[i].NodeID \in IdsIn(p.Nodes)
                 /\ \A i \in DOMAIN p.Nodes : p.Nodes[i].DiagramID \in IdsIn(p.Diagrams)

\* what collectProjectData returns for the project on the storage state d
\* when nothing else runs
SnapshotOf(d, projectID) ==
    LET diagrams == FindAllByProjectID(d.diagrams, projectID, TRUE).docs
        nodes    == IF Len(diagrams) > 0
                    THEN FindByDiagramIDs(d.nodes,
                                          [i \in 1..Len(diagrams) |-> diagrams[i].ID],
                                          TRUE).docs
                    ELSE <<>>
    IN  [Diagrams |-> toDiagramBackups(diagrams),
         Nodes    |-> toNodeBackups(nodes),
         Vaults   |-> toVaultBackups(FindVaultsByProjectID(d.vaults, projectID, TRUE).docs),
         Notes    |-> toNoteBackups(FindNotesByProjectID(d.notes, projectID, TRUE).docs)]

GraphOfPayload(p) ==
    [Diagrams |-> p.Diagrams, Nodes |-> p.Nodes, Vaults |-> p.Vaults, Notes |-> p.Notes]

----------------------------------------------------------------------------
(* Properties of insertRestoredData: parents, order, binding, counting *)

\* a parent id that is the id of no entity of `list` gave a nil parent
DanglingIsRoot(list, out, parentField) ==
    \A i \in DOMAIN list :
        (list[i][parentField] # Nil /\ list[i][parentField][1] \notin IdsIn(list))
            => out[i][parentField] = Nil

\* C23: dangling parent becomes root.  After a successful restore a
\* diagram whose parent id is the id of no diagram of the payload has a
\* nil parent, and a note whose parent id is the id of no note of the
\* payload has a nil parent, also when that parent id is the id of the
\* payload's project or of an entity of another kind.
C23_DanglingParentBecomesRoot ==
    \A r \in Restorers :
        RestoreSucceeded(r)
            => /\ DanglingIsRoot(rst[r].payload[1].Diagrams, rst[r].out.diagrams,
                                 "ParentDiagramID")
               /\ DanglingIsRoot(rst[r].payload[1].Notes, rst[r].out.notes, "ParentID")

\* the entities of `list` whose parent is an entity of `list` point, once
\* restored, at the one restored entity that came from their parent
ParentRestored(list, out, parentField) ==
    \A i \in DOMAIN list :
        (list[i][parentField] # Nil /\ list[i][parentField][1] \in IdsIn(list))
            => /\ out[i][parentField] # Nil
               /\ NewIdsOf(list, out, list[i][parentField][1]) = {out[i][parentField][1]}

\* the position of the entity with id x
PositionOf(list, x) == CHOOSE i \in DOMAIN list : list[i].ID = x

\* C24: two-pass order independence.  In every order of the payload's
\* diagrams and of its notes, also with a child listed before its parent,
\* the restored child's parent pointer is the new id of the restored
\* parent.
C24_OrderIndependence ==
    \A r \in Restorers :
        RestoreSucceeded(r)
            => /\ ParentRestored(rst[r].payload[1].Diagrams, rst[r].out.diagrams,
                                 "ParentDiagramID")
               /\ ParentRestored(rst[r].payload[1].Notes, rst[r].out.notes, "ParentID")

\* a restore of the chain listed leaf first, and of the note listed before
\* its folder
C24_Witness ==
    /\ RestoreSucceeded(1)
    /\ LET p == rst[1].payload[1]
           o == rst[1].out
       IN  /\ p.Diagrams[1].ID = Hex(4) /\ p.Diagrams[2].ID = Hex(3)
           /\ p.Notes[1].ID = Hex(8)
           /\ o.diagrams[1].ParentDiagramID = Ptr(o.diagrams[2].ID)
           /\ o.diagrams[2].ParentDiagramID = Ptr(o.diagrams[3].ID)
           /\ o.diagrams[3].ParentDiagramID = Nil
           /\ o.notes[1].ParentID = Ptr(o.notes[2].ID)

\* the place of a storage write in the order project, member, diagrams,
\* nodes, vaults, notes
StepRank(step) ==
    CASE step = "create project" -> 1
      [] step = "create member"  -> 2
      [] step = "create diagram" -> 3
      [] step = "create node"    -> 4
      [] step = "create vault"   -> 5
      [] step = "create note"    -> 6
      [] OTHER                   -> 0

WritesOf(loc) == SelectSeq(loc.steps, LAMBDA st : StepRank(st) > 0)

InInsertOrder(w) ==
    /\ \A i \in DOMAIN w : \A j \in DOMAIN w : i < j => StepRank(w[i]) <= StepRank(w[j])
    /\ Len(w) >= 1 => w[1] = "create project"
    /\ Len(w) >= 2 => w[2] = "create member"
    /\ Len(w) >= 3 => w[3] # "create member"

InsertedSoFarClosed(out) ==
    /\ \A i \in DOMAIN out.nodes : out.nodes[i].DiagramID \in IDsOf(out.diagrams)
    /\ \A i \in DOMAIN out.vaults : out.vaults[i].NodeId \in IDsOf(out.nodes)

\* C25: restore insert order.  Every restore writes the project first,
\* then the owner membership, then all diagrams, then all nodes, then all
\* vaults, then all notes; and for an internally valid payload, in every
\* intermediate state and after a failure at any step, every node inserted
\* so far references a diagram inserted so far and every vault inserted so
\* far a node inserted so far.
C25_RestoreInsertOrder ==
    \A r \in Restorers :
        /\ InInsertOrder(WritesOf(rst[r]))
        /\ (rst[r].payload # Nil /\ InternallyValid(rst[r].payload[1]))
              => InsertedSoFarClosed(rst[r].out)

----------------------------------------------------------------------------
(* Properties of RestoreBackup on uploaded streams *)

\* C26: size boundary.  RestoreBackup fails with ErrBackupTooLarge if and
\* only if the stream holds more than 104,857,600 bytes; a stream of
\* exactly 104,857,600 bytes passes the size check; and no call reads more
\* than 104,857,601 bytes from the stream.
C26_SizeBoundary ==
    \A r \in Restorers :
        rst[r].pc \notin {"off", "start"}
            => /\ rst[r].err = ErrBackupTooLarge
                     <=> StreamSize(rst[r].stream) > 104857600
               /\ (StreamSize(rst[r].stream) = 104857600 /\ ~rst[r].stream.fail)
                     => /\ Len(rst[r].steps) > 2
                        /\ SubSeq(rst[r].steps, 1, 2) = <<"read", "size">>
               /\ ReadAllLimited(rst[r].stream, MaxBackupSize + 1).read <= 104857601

\* a stream of exactly the limit went on to the header check
C26_Witness ==
    /\ rst[1].pc = "done"
    /\ StreamSize(rst[1].stream) = MaxBackupSize /\ ~rst[1].stream.fail
    /\ rst[1].err = ErrBackupInvalidFormat
    /\ rst[1].steps = <<"read", "size", "length", "magic">>

\* the errors of RestoreBackup before insertRestoredData: the read, the
\* size check, the header, the decryption, the decompression and the JSON
\* decoding
EarlyErrors ==
    {"reading backup file", ErrBackupTooLarge, ErrBackupInvalidFormat,
     ErrBackupVersionMismatch, ErrBackupDecryptionFailed, "decompressing backup",
     "unmarshaling backup"}

\* C28: no writes before a validated payload.  Whenever RestoreBackup
\* failed at the read, size-check, header, decryption, decompression or
\* JSON-decoding stage, storage is exactly as it was before the call.
C28_NoWritesBeforeValidation ==
    \A r \in Restorers :
        (rst[r].pc = "done" /\ rst[r].err \in EarlyErrors)
            => /\ db = StoredDB
               /\ oidCounter = LastObjectID(StoredDB)
               /\ rst[r].project = Nil
               /\ \A i \in DOMAIN rst[r].steps : rst[r].steps[i] \notin CreateSteps

\* a call that failed to decompress what it had decrypted
C28_Witness ==
    /\ rst[1].pc = "done" /\ rst[1].err = "decompressing backup"
    /\ "decrypt" \in Range(rst[1].steps)
    /\ db = StoredDB

\* the documents of the collection that a restore inserted
InsertedDocs(coll, out) == {coll[i] : i \in Matching(coll, "ID", IDsOf(out))}

\* C27: new-project binding.  After a successful restore the new project
\* has the payload project's name, description and key epoch and a new
\* identifier, its timestamps are the restore time and not the payload's,
\* and every restored diagram, vault and note and the owner membership
\* carry the new project's identifier.
C27_NewProjectBinding ==
    \A r \in Restorers :
        RestoreSucceeded(r)
            => LET p       == rst[r].payload[1]
                   project == rst[r].project[1]
                   new     == rst[r].newProjectID
                   out     == rst[r].out
               IN  /\ project.ID = new
                   /\ project \in Range(db.projects)
                   /\ project.Name = p.Project.Name
                   /\ project.Description = p.Project.Description
                   /\ project.KeyEpoch = p.Project.KeyEpoch
                   /\ Hex(new) # p.Project.ID
                   /\ new \notin IDsOf(OriginalDB.projects)
                   /\ Cardinality(Matching(db.projects, "ID", {new})) = 1
                   /\ project.CreatedAt = TimeNow /\ project.UpdatedAt = TimeNow
                   /\ FormatRFC3339(project.CreatedAt) # p.Project.CreatedAt
                   /\ FormatRFC3339(project.UpdatedAt) # p.Project.UpdatedAt
                   /\ \A d \in InsertedDocs(db.diagrams, out.diagrams) : d.ProjectID = new
                   /\ \A v \in InsertedDocs(db.vaults, out.vaults) : v.ProjectId = new
                   /\ \A n \in InsertedDocs(db.notes, out.notes) : n.ProjectID = new
                   /\ Cardinality(InsertedDocs(db.diagrams, out.diagrams)) = Len(p.Diagrams)
                   /\ Cardinality(InsertedDocs(db.vaults, out.vaults)) = Len(p.Vaults)
                   /\ Cardinality(InsertedDocs(db.notes, out.notes)) = Len(p.Notes)
                   /\ \E i \in MembersOf(new) : db.members[i].UserID = rst[r].userID

\* a restore of three diagrams, a vault and two notes into a new project
C27_Witness ==
    /\ RestoreSucceeded(1)
    /\ Cardinality(Matching(db.diagrams, "ProjectID", {rst[1].newProjectID})) = 3
    /\ Cardinality(Matching(db.vaults, "ProjectId", {rst[1].newProjectID})) = 1
    /\ Cardinality(Matching(db.notes, "ProjectID", {rst[1].newProjectID})) = 2
    /\ Cardinality(MembersOf(rst[1].newProjectID)) = 1
    /\ rst[1].project[1].Name = <<80>>

\* the new project's id and the ids of everything a restore inserted
NewIdentifiers(loc) ==
    <<loc.newProjectID>>
    \o [i \in DOMAIN loc.out.diagrams |-> loc.out.diagrams[i].ID]
    \o [i \in DOMAIN loc.out.nodes |-> loc.out.nodes[i].ID]
    \o [i \in DOMAIN loc.out.vaults |-> loc.out.vaults[i].ID]
    \o [i \in DOMAIN loc.out.notes |-> loc.out.notes[i].ID]

\* C29: restore is one-to-one.  After a successful restore of any payload,
\* also one in which entities carry the same id, the numbers of restored
\* diagrams, nodes, vaults and notes are the lengths of the payload's
\* lists, and the restored entities have pairwise distinct new ids.
C29_RestoreOneToOne ==
    \A r \in Restorers :
        RestoreSucceeded(r)
            => LET p   == rst[r].payload[1]
                   out == rst[r].out
                   ids == NewIdentifiers(rst[r])
               IN  /\ Cardinality(InsertedDocs(db.diagrams, out.diagrams)) = Len(p.Diagrams)
                   /\ Cardinality(InsertedDocs(db.nodes, out.nodes)) = Len(p.Nodes)
                   /\ Cardinality(InsertedDocs(db.vaults, out.vaults)) = Len(p.Vaults)
                   /\ Cardinality(InsertedDocs(db.notes, out.notes)) = Len(p.Notes)
                   /\ Len(out.diagrams) = Len(p.Diagrams) /\ Len(out.nodes) = Len(p.Nodes)
                   /\ Len(out.vaults) = Len(p.Vaults) /\ Len(out.notes) = Len(p.Notes)
                   /\ \A i, j \in DOMAIN ids : ids[i] = ids[j] => i = j

\* a restore of a payload whose project, diagram, node, two vaults and
\* note all carry the same id
C29_Witness ==
    /\ RestoreSucceeded(1)
    /\ LET p == rst[1].payload[1]
       IN  /\ p.Diagrams[1].ID = p.Project.ID /\ p.Nodes[1].ID = p.Project.ID
           /\ p.Notes[1].ID = p.Project.ID
           /\ Len(p.Vaults) = 2 /\ p.Vaults[1].ID = p.Vaults[2].ID
    /\ Len(rst[1].out.vaults) = 2
    /\ Cardinality(Range(NewIdentifiers(rst[1]))) = 6

====
